---- MODULE Spec2Model ----
(***************************************************************************)
(* Schedule computation, scheduled execution, bounded retry and missed     *)
(* detection of pvpccheap4 (backend/src/services/schedule_computation.rs,  *)
(* backend/src/services/automation_engine.rs, backend/src/bin/             *)
(* cron_runner.rs).                                                        *)
(*                                                                         *)
(* Time.  A NaiveDateTime that is aligned to an hour (scheduled_hour,      *)
(* prices.timestamp) is the hour index  date * 24 + hour.  The wall clock  *)
(* and the retry timestamps are minutes since 00:00 of date 0.             *)
(* Option<T> is a sequence of length 0 (None) or 1 (Some).                 *)
(* Prices are integers (hundredths of a currency unit per kWh).            *)
(***************************************************************************)
EXTENDS Integers, Sequences, FiniteSets, TLC

VARIABLES
    clock,        \* Local::now(), in minutes
    rows,         \* table scheduled_executions: (rule_id, scheduled_hour) -> row
    prices,       \* table prices: timestamp (hour index) -> price
    rules,        \* table automation_rules: id -> rule
    tasks,        \* the running sweeps of the cron process, by slot
    phase,        \* position of the cron process: startup steps or running
    retryFired,   \* the per-minute job has fired in the current minute
    hourlyFired,  \* the hourly job has fired in the current minute
    last,         \* the step that was taken last (operation, arguments, result)
    new_execution,     \* the row that the step taken last inserted into rule_executions
    engine,            \* AutomationEngine::run in progress: the rules still to evaluate
    call,              \* a function applied to drawn arguments, and its result
    daily,             \* sync_prices_daily in progress: its attempts and waits
    connection,        \* the MqttConnection of the session: its state and connected flag
    pending_requests,  \* MqttConnection::pending_requests, in registration order
    requests,          \* the callers of MqttConnection::request, by slot
    operation          \* the provider operation that owns the session

\* the state of the reactive engine and of the function under check
engineVars == <<engine, call, daily>>

\* the state of the device protocol
mqttVars == <<connection, pending_requests, requests, operation>>

vars == <<clock, rows, prices, rules, tasks, phase, retryFired, hourlyFired, last,
          new_execution, engineVars, mqttVars>>

-----------------------------------------------------------------------------
(* Bounds of the model *)

MaxPrice == 2
MaxHoursNeeded == 2
MaxTasks == 2
MaxClock == 841
MaxCalls == 3

(* Program constants *)

HoursPerDay == 24
MinutesPerHour == 60
MaxRetryCount == 5
RetryDelayMinutes == 1
DefaultHoursNeeded == 6
DefaultThreshold == 10
DefaultEndHour == 23
DefaultStartHour == 0

-----------------------------------------------------------------------------
(* Option *)

None == << >>

Some(x) == <<x>>

Min(a, b) == IF a <= b THEN a ELSE b

-----------------------------------------------------------------------------
(* chrono helpers *)

\* NaiveDateTime::hour() of an hour-aligned timestamp
HourOf(ts) == ts % HoursPerDay

\* NaiveDateTime::date() of an hour-aligned timestamp
DateOf(ts) == ts \div HoursPerDay

\* date.and_hms_opt(h, 0, 0): None unless h is a valid hour
AndHmsOpt(date, h) == IF h >= 0 /\ h < HoursPerDay THEN Some(date * HoursPerDay + h) ELSE None

\* now.date().and_hms_opt(now.hour(), 0, 0): the hour that contains minute now
CurrentHourStart(now) == now \div MinutesPerHour

\* now.date() for a wall clock value in minutes
TodayOf(now) == now \div (MinutesPerHour * HoursPerDay)

-----------------------------------------------------------------------------
(* models.rs: statuses and actions *)

Pending == "pending"
Executed == "executed"
Retrying == "retrying"
Failed == "failed"
Missed == "missed"

ExecutionStatus == {Pending, Executed, Retrying, Failed, Missed}

TurnOn == "turn_on"
TurnOff == "turn_off"
Toggle == "toggle"

\* RuleAction::from_str(..).unwrap_or(RuleAction::TurnOn)
ActionFromStr(s) == IF s \in {TurnOn, TurnOff, Toggle} THEN s ELSE TurnOn

\* The row that compute_schedule_for_rule_internal inserts: NewScheduledExecution
\* sets rule_id, scheduled_hour (the key), expected_action and status; the
\* other columns take their defaults, retry_count 0 and NULL timestamps.
NewScheduledExecution(action) ==
    [status |-> Pending, expected_action |-> action, retry_count |-> 0,
     executed_at |-> None, last_retry_at |-> None, next_retry_at |-> None]

-----------------------------------------------------------------------------
(* price_fetcher.rs *)

RECURSIVE AscendingSeq(_)
\* the elements of a finite set of integers in ascending order
AscendingSeq(S) ==
    IF S = {} THEN << >>
    ELSE LET m == CHOOSE x \in S : \A y \in S : x <= y
         IN  <<m>> \o AscendingSeq(S \ {m})

\* PriceService::get_prices_for_date: the price points of the date, ordered
\* by timestamp ascending
get_prices_for_date(date) ==
    LET S == {t \in DOMAIN prices : DateOf(t) = date}
        ord == AscendingSeq(S)
    IN  [i \in 1..Len(ord) |-> [timestamp |-> ord[i], price |-> prices[ord[i]]]]

-----------------------------------------------------------------------------
(* schedule_computation.rs: calculate_timestamps_for_rule *)

\* .and_then(|v| v.as_str()).and_then(|s| s.split(':').next())
\*     .and_then(|h| h.parse::<u32>().ok())
\* A configured time text is the number in front of its first ':' when that
\* part is a decimal number, and -1 when it is not.
ParseHour(v) == IF v # None /\ v[1] >= 0 THEN Some(v[1]) ELSE None

UnwrapOr(v, d) == IF v = None THEN d ELSE v[1]

\* a sort that leaves the list in timestamp order
SortByPriceUnsorted(s) == s

RECURSIVE SortByPrice(_)
\* sorted_prices.sort_by(|a, b| a.price.partial_cmp(&b.price)): a stable sort
SortByPrice(s) ==
    IF Len(s) <= 1 THEN s
    ELSE LET x == Head(s)
             rest == SortByPrice(Tail(s))
             lower == SelectSeq(rest, LAMBDA p : p.price < x.price)
             upper == SelectSeq(rest, LAMBDA p : p.price >= x.price)
         IN  lower \o <<x>> \o upper

\* .iter().take(n) where n is hours_needed as usize: a negative i64 becomes a
\* count larger than any list
Take(s, n) == IF n < 0 THEN s ELSE SubSeq(s, 1, Min(n, Len(s)))

Timestamps(s) == [i \in 1..Len(s) |-> s[i].timestamp]

\* a window check that looks at the hours of the date only
FilteredPricesTodayOnly(start_hour, end_hour, date) ==
    IF start_hour # None /\ end_hour # None
    THEN SelectSeq(get_prices_for_date(date),
                   LAMBDA p : HourOf(p.timestamp) >= start_hour[1]
                              /\ HourOf(p.timestamp) <= end_hour[1])
    ELSE get_prices_for_date(date)

\* the match on (start_hour, end_hour) that gathers the candidate prices
FilteredPrices(start_hour, end_hour, date) ==
    IF start_hour # None /\ end_hour # None /\ start_hour[1] > end_hour[1]
    THEN SelectSeq(get_prices_for_date(date),
                   LAMBDA p : HourOf(p.timestamp) >= start_hour[1])
         \o SelectSeq(get_prices_for_date(date + 1),
                      LAMBDA p : HourOf(p.timestamp) <= end_hour[1])
    ELSE IF start_hour # None /\ end_hour # None
    THEN SelectSeq(get_prices_for_date(date),
                   LAMBDA p : HourOf(p.timestamp) >= start_hour[1]
                              /\ HourOf(p.timestamp) <= end_hour[1])
    ELSE get_prices_for_date(date)

\* the "cheapest_hours" arm
CheapestHoursTimestamps(cfg, date) ==
    LET hours_needed == UnwrapOr(cfg.cheapest_hours, DefaultHoursNeeded)
        start_hour == ParseHour(cfg.time_range_start)
        end_hour == ParseHour(cfg.time_range_end)
        filtered_prices == FilteredPrices(start_hour, end_hour, date)
    IN  Timestamps(Take(SortByPrice(filtered_prices), hours_needed))

\* the "price_threshold" arm
PriceThresholdTimestamps(cfg, date) ==
    LET threshold == UnwrapOr(cfg.price_threshold, DefaultThreshold)
    IN  Timestamps(SelectSeq(get_prices_for_date(date), LAMBDA p : p.price <= threshold))

RECURSIVE HourRange(_, _, _)
\* (from..=to).filter_map(|h| date.and_hms_opt(h, 0, 0)).collect()
HourRange(date, from, to) ==
    IF from > to THEN << >>
    ELSE AndHmsOpt(date, from) \o HourRange(date, from + 1, to)

\* the "time_schedule" arm
TimeScheduleTimestamps(cfg, date) ==
    LET start_hour == UnwrapOr(ParseHour(cfg.time_range_start), DefaultStartHour)
        end_hour == UnwrapOr(ParseHour(cfg.time_range_end), DefaultEndHour)
    IN  IF start_hour <= end_hour
        THEN HourRange(date, start_hour, end_hour)
        ELSE HourRange(date, start_hour, HoursPerDay - 1)
             \o HourRange(date + 1, 0, end_hour)

calculate_timestamps_for_rule(rule, date) ==
    IF rule.rule_type = "cheapest_hours" THEN CheapestHoursTimestamps(rule.config, date)
    ELSE IF rule.rule_type = "price_threshold" THEN PriceThresholdTimestamps(rule.config, date)
    ELSE IF rule.rule_type = "time_schedule" THEN TimeScheduleTimestamps(rule.config, date)
    ELSE << >>

-----------------------------------------------------------------------------
(* schedule_computation.rs: compute_schedule_for_rule_internal and callers *)

\* an insert that replaces the row on conflict and reports it as written
InsertOrReplace(rws, key, action) ==
    [rows |-> (key :> NewScheduledExecution(action)) @@ rws, n |-> 1]

\* insert_into(scheduled_executions).on_conflict((rule_id, scheduled_hour))
\*     .do_nothing(): the number of rows written is 1 or 0
InsertScheduledExecution(rws, key, action) ==
    IF key \in DOMAIN rws
    THEN [rows |-> rws, n |-> 0]
    ELSE [rows |-> (key :> NewScheduledExecution(action)) @@ rws, n |-> 1]

RECURSIVE InsertAll(_, _, _, _, _)
\* the loop over timestamps_to_schedule; count is incremented on Ok(1)
InsertAll(rws, rule_id, action, ts, count) ==
    IF ts = << >> THEN [rows |-> rws, count |-> count]
    ELSE LET r == InsertScheduledExecution(rws, <<rule_id, Head(ts)>>, action)
         IN  InsertAll(r.rows, rule_id, action, Tail(ts), count + r.n)

compute_schedule_for_rule_internal(rws, rule_id, date) ==
    InsertAll(rws, rule_id, rules[rule_id].action,
              calculate_timestamps_for_rule(rules[rule_id], date), 0)

RECURSIVE ComputeForRules(_, _, _, _)
\* the loop of compute_schedule_for_date over the loaded rules
ComputeForRules(rws, ids, date, total) ==
    IF ids = << >> THEN [rows |-> rws, count |-> total]
    ELSE LET r == compute_schedule_for_rule_internal(rws, Head(ids), date)
         IN  ComputeForRules(r.rows, Tail(ids), date, total + r.count)

\* automation_rules.filter(is_enabled.eq(true))
EnabledRuleIds == {id \in DOMAIN rules : rules[id].is_enabled}

compute_schedule_for_date(rws, date) ==
    ComputeForRules(rws, AscendingSeq(EnabledRuleIds), date, 0)

\* the rows of one rule
RowsOfRule(rws, rule_id) == {k \in DOMAIN rws : k[1] = rule_id}

-----------------------------------------------------------------------------
(* The record of the step taken last *)

NoLast ==
    [op |-> "init", rule |-> 0, date |-> 0, key |-> << >>, ok |-> FALSE,
     count |-> 0, new |-> {}, fresh |-> {}, read |-> 0, now |-> 0, task |-> 0]

RuleIds == {1, 2}

\* a rule config without any key: the keys schedule computation reads, and the
\* keys of PriceThresholdConfig, CheapestHoursConfig and TimeScheduleConfig
NoConfig ==
    [cheapest_hours |-> None, time_range_start |-> None, time_range_end |-> None,
     price_threshold |-> None, comparison |-> None,
     threshold |-> None, hours_needed |-> None, window_start |-> None,
     window_end |-> None, contiguous |-> None, days |-> None, time |-> None]

\* a row of automation_rules
Rule(type, action, cfg, enabled, device) ==
    [rule_type |-> type, action |-> action, config |-> cfg, is_enabled |-> enabled,
     device_id |-> device, priority |-> 0]

Dates == {0, 1}

-----------------------------------------------------------------------------
(* Actions of schedule computation *)

\* the effect of compute_schedule_for_rule(rule_id, date) on the table
ComputeRuleEffect(rule_id, date) ==
    LET r == compute_schedule_for_rule_internal(rows, rule_id, date)
    IN  /\ rows' = r.rows
        /\ last' = [NoLast EXCEPT !.op = "compute_schedule_for_rule",
                                  !.rule = rule_id, !.date = date,
                                  !.count = r.count,
                                  !.new = DOMAIN r.rows \ DOMAIN rows,
                                  !.fresh = {id \in {rule_id} : RowsOfRule(rows, id) = {}}]

\* the effect of compute_schedule_for_date(date) on the table
ComputeDateEffect(date) ==
    LET r == compute_schedule_for_date(rows, date)
    IN  /\ rows' = r.rows
        /\ last' = [NoLast EXCEPT !.op = "compute_schedule_for_date",
                                  !.date = date, !.count = r.count,
                                  !.new = DOMAIN r.rows \ DOMAIN rows,
                                  !.fresh = {id \in EnabledRuleIds : RowsOfRule(rows, id) = {}}]

\* compute_schedule_for_rule(rule_id, date)
ComputeScheduleForRule(rule_id, date) ==
    /\ ComputeRuleEffect(rule_id, date)
    /\ new_execution' = None
    /\ UNCHANGED <<clock, prices, rules, tasks, phase, retryFired, hourlyFired,
                   engineVars, mqttVars>>

\* compute_schedule_for_date(date)
ComputeScheduleForDate(date) ==
    /\ ComputeDateEffect(date)
    /\ new_execution' = None
    /\ UNCHANGED <<clock, prices, rules, tasks, phase, retryFired, hourlyFired,
                   engineVars, mqttVars>>

-----------------------------------------------------------------------------
(* Tasks of the cron process *)

Idle ==
    [kind |-> "idle", pc |-> "idle", now |-> 0, queue |-> << >>, ids |-> {},
     off |-> << >>, ok |-> FALSE, read |-> 0, unow |-> 0, startup |-> FALSE]

TaskIds == 1..MaxTasks

\* the orders in which a query without ORDER BY can return a set of rows
Orders(S) ==
    {q \in [1..Cardinality(S) -> S] : \A i, j \in 1..Cardinality(S) : q[i] = q[j] => i = j}

\* the lowest free slot, if any: a job that fires takes it
FreeSlots == {t \in TaskIds : tasks[t].kind = "idle"}

IsFirstFree(t) == t \in FreeSlots /\ \A u \in FreeSlots : t <= u

\* a task is suspended in a provider call
Awaiting(tk) == tk.pc \in {"await", "off_await"}

\* automation_rules.filter(is_enabled).filter(action.eq("turn_on"))
\*     .filter(id.ne_all(&scheduled_rule_ids)), execute_current_hour
rules_to_turn_off(scheduled_rule_ids) ==
    {id \in DOMAIN rules :
        /\ rules[id].is_enabled
        /\ rules[id].action = TurnOn
        /\ id \notin scheduled_rule_ids}

\* the has_schedule_today query of execute_current_hour
has_schedule_today(rule_id, now) ==
    \E k \in DOMAIN rows :
        /\ k[1] = rule_id
        /\ k[2] >= TodayOf(now) * HoursPerDay
        /\ k[2] <= TodayOf(now) * HoursPerDay + (HoursPerDay - 1)

\* execute_current_hour after the loop over pending_executions: the rules to
\* turn off are loaded; without any the sweep returns
EnterTurnOff(tk) ==
    LET off == AscendingSeq(rules_to_turn_off(tk.ids))
    IN  IF off = << >> THEN Idle ELSE [tk EXCEPT !.pc = "off", !.off = off]

\* the sweep after it is done with the row at the head of its list
AfterRow(tk) ==
    LET q == Tail(tk.queue)
    IN  IF q # << >> THEN [tk EXCEPT !.queue = q, !.pc = "loop"]
        ELSE IF tk.kind = "retry" THEN Idle
        ELSE EnterTurnOff([tk EXCEPT !.queue = q])

\* the hourly sweep after it is done with the rule at the head of its list
AfterTurnOff(tk) ==
    LET o == Tail(tk.off)
    IN  IF o # << >> THEN [tk EXCEPT !.off = o, !.pc = "off"] ELSE Idle

\* A task takes its next position.  When the sweep that sync_prices_startup
\* awaits returns, main creates and starts the scheduler: the jobs fire from
\* the next minute on.
SetTask(t, tk) ==
    /\ tasks' = [tasks EXCEPT ![t] = tk]
    /\ IF tasks[t].startup /\ tk.kind = "idle"
       THEN phase' = "running" /\ retryFired' = TRUE /\ hourlyFired' = TRUE
       ELSE UNCHANGED <<phase, retryFired, hourlyFired>>

\* a mark_missed_hours that also takes the current hour for passed
mark_missed_hours_le(rws, now) ==
    [k \in DOMAIN rws |->
        IF rws[k].status = Pending /\ k[2] <= CurrentHourStart(now)
        THEN [rws[k] EXCEPT !.status = Missed]
        ELSE rws[k]]

\* a mark_missed_hours that updates no row
mark_missed_hours_never(rws, now) == rws

\* mark_missed_hours: one UPDATE statement
mark_missed_hours(rws, now) ==
    [k \in DOMAIN rws |->
        IF rws[k].status = Pending /\ k[2] < CurrentHourStart(now)
        THEN [rws[k] EXCEPT !.status = Missed]
        ELSE rws[k]]

\* the pending_executions query of execute_current_hour
pending_executions(now) ==
    {k \in DOMAIN rows : k[2] = CurrentHourStart(now) /\ rows[k].status = Pending}

\* the retrying_executions query of retry_failed_executions
retrying_executions(now) ==
    {k \in DOMAIN rows :
        /\ rows[k].status = Retrying
        /\ rows[k].next_retry_at # None
        /\ rows[k].next_retry_at[1] <= now}

\* a retry that is scheduled for the minute of the failure itself
RetryUpdateNoDelay(row, read, now) ==
    IF read + 1 >= MaxRetryCount
    THEN [row EXCEPT !.status = Failed, !.retry_count = read + 1,
                     !.last_retry_at = Some(now), !.next_retry_at = None]
    ELSE [row EXCEPT !.status = Retrying, !.retry_count = read + 1,
                     !.last_retry_at = Some(now), !.next_retry_at = Some(now)]

\* update_scheduled_status, failure branch: the UpdateScheduledExecution that
\* is written when the row read had retry_count = read
RetryUpdate(row, read, now) ==
    IF read + 1 >= MaxRetryCount
    THEN [row EXCEPT !.status = Failed, !.retry_count = read + 1,
                     !.last_retry_at = Some(now), !.next_retry_at = None]
    ELSE [row EXCEPT !.status = Retrying, !.retry_count = read + 1,
                     !.last_retry_at = Some(now),
                     !.next_retry_at = Some(now + RetryDelayMinutes)]

\* update_scheduled_status, success branch
ExecutedUpdate(row, now) ==
    [row EXCEPT !.status = Executed, !.executed_at = Some(now), !.next_retry_at = None]

\* retry_failed_executions, the update of a row whose hour has passed
MissedUpdate(row, now) ==
    [row EXCEPT !.status = Missed, !.last_retry_at = Some(now), !.next_retry_at = None]

\* diesel::update(scheduled_executions.filter(id.eq(..))).set(..): no row, no effect
UpdateRow(rws, key, row) == IF key \in DOMAIN rws THEN [rws EXCEPT ![key] = row] ELSE rws

\* a log_execution that writes a row for a successful attempt only
log_execution_of_success(rule_id, action, success) ==
    IF success
    THEN Some([rule_id |-> rule_id, action_taken |-> action, success |-> success])
    ELSE None

\* log_execution(result, evaluation): the NewRuleExecution that is inserted
\* into rule_executions, with result.rule_id, evaluation.action.as_str() and
\* result.success.  The table is written by this INSERT only.
log_execution(rule_id, action, success) ==
    Some([rule_id |-> rule_id, action_taken |-> action, success |-> success])

-----------------------------------------------------------------------------
(* Actions of the cron process *)

\* sync_prices_startup: compute_schedule_for_date(today).  No price of
\* tomorrow is stored, so recompute_overnight_rules is not called.
StartupCompute ==
    /\ phase = "startup_compute"
    /\ ComputeDateEffect(TodayOf(clock))
    /\ phase' = "startup_mark"
    /\ new_execution' = None
    /\ UNCHANGED <<clock, prices, rules, tasks, retryFired, hourlyFired,
                   engineVars, mqttVars>>

\* sync_prices_startup: mark_missed_hours()
StartupMarkMissed ==
    /\ phase = "startup_mark"
    /\ rows' = mark_missed_hours(rows, clock)
    /\ phase' = "startup_run"
    /\ last' = [NoLast EXCEPT !.op = "mark_missed_hours", !.now = clock]
    /\ new_execution' = None
    /\ UNCHANGED <<clock, prices, rules, tasks, retryFired, hourlyFired,
                   engineVars, mqttVars>>

\* execute_current_hour up to its first provider call: the pending rows of
\* the current hour are loaded
SelectPending(t, startup) ==
    \E q \in Orders(pending_executions(clock)) :
        LET tk == [Idle EXCEPT !.kind = "hourly", !.now = clock, !.queue = q,
                               !.ids = {q[i][1] : i \in 1..Len(q)},
                               !.startup = startup, !.pc = "loop"]
            nxt == IF q = << >> THEN EnterTurnOff(tk) ELSE tk
        IN  /\ tasks' = [tasks EXCEPT ![t] = nxt]
            /\ last' = [NoLast EXCEPT !.op = "execute_current_hour", !.now = clock,
                                      !.task = t, !.new = pending_executions(clock)]
            /\ IF startup
               THEN IF nxt.kind = "idle"
                    THEN phase' = "running" /\ retryFired' = TRUE /\ hourlyFired' = TRUE
                    ELSE phase' = "startup_sweep" /\ UNCHANGED <<retryFired, hourlyFired>>
               ELSE hourlyFired' = TRUE /\ UNCHANGED <<phase, retryFired>>

\* sync_prices_startup: run_scheduled_automation(pool)
StartupRun ==
    /\ phase = "startup_run"
    /\ \E t \in TaskIds : IsFirstFree(t) /\ SelectPending(t, TRUE)
    /\ new_execution' = None
    /\ UNCHANGED <<clock, rows, prices, rules, engineVars, mqttVars>>

\* the hourly job "0 0 * * * *": run_scheduled_automation
HourlyJob ==
    /\ phase = "running"
    /\ ~hourlyFired
    /\ clock % MinutesPerHour = 0
    /\ \E t \in TaskIds : IsFirstFree(t) /\ SelectPending(t, FALSE)
    /\ new_execution' = None
    /\ UNCHANGED <<clock, rows, prices, rules, engineVars, mqttVars>>

\* the per-minute job "0 * * * * *": retry_failed_executions of cron_runner,
\* which begins with mark_missed_hours
RetryJob ==
    /\ phase = "running"
    /\ ~retryFired
    /\ \E t \in TaskIds :
          /\ IsFirstFree(t)
          /\ tasks' = [tasks EXCEPT ![t] = [Idle EXCEPT !.kind = "retry", !.pc = "select"]]
          /\ last' = [NoLast EXCEPT !.op = "mark_missed_hours", !.now = clock, !.task = t]
    /\ rows' = mark_missed_hours(rows, clock)
    /\ retryFired' = TRUE
    /\ new_execution' = None
    /\ UNCHANGED <<clock, prices, rules, phase, hourlyFired, engineVars, mqttVars>>

\* AutomationEngine::retry_failed_executions up to its loop: the due rows
\* are loaded
RetrySelect(t) ==
    /\ tasks[t].pc = "select"
    /\ \E q \in Orders(retrying_executions(clock)) :
          /\ SetTask(t, IF q = << >> THEN Idle
                        ELSE [tasks[t] EXCEPT !.now = clock, !.queue = q, !.pc = "loop"])
          /\ last' = [NoLast EXCEPT !.op = "retry_failed_executions", !.now = clock,
                                    !.task = t, !.new = retrying_executions(clock)]
    /\ new_execution' = None
    /\ UNCHANGED <<clock, rows, prices, rules, engineVars, mqttVars>>

\* retry_failed_executions, a row whose hour has passed: it is marked missed
RetryMarkMissed(t) ==
    LET tk == tasks[t]
        key == Head(tk.queue)
    IN  /\ tk.pc = "loop"
        /\ tk.kind = "retry"
        /\ key[2] < CurrentHourStart(tk.now)
        /\ rows' = UpdateRow(rows, key, MissedUpdate(rows[key], tk.now))
        /\ SetTask(t, AfterRow(tk))
        /\ last' = [NoLast EXCEPT !.op = "retry_missed", !.key = key, !.now = tk.now,
                                  !.task = t]
        /\ new_execution' = None
        /\ UNCHANGED <<clock, prices, rules, engineVars, mqttVars>>

\* execute_scheduled_execution up to the provider call of execute_rule: the
\* device command of the row goes out
ExecuteScheduledExecution(t) ==
    LET tk == tasks[t]
        key == Head(tk.queue)
    IN  /\ tk.pc = "loop"
        /\ tk.kind = "retry" => ~(key[2] < CurrentHourStart(tk.now))
        /\ SetTask(t, [tk EXCEPT !.pc = "await"])
        /\ last' = [NoLast EXCEPT !.op = "execute_scheduled_execution", !.key = key,
                                  !.now = tk.now, !.task = t]
        /\ new_execution' = None
        /\ UNCHANGED <<clock, rows, prices, rules, engineVars, mqttVars>>

\* the provider call returns with success: log_execution, then
\* update_scheduled_status writes Executed
ExecutionSucceeds(t) ==
    LET tk == tasks[t]
        key == Head(tk.queue)
    IN  /\ tk.pc = "await"
        /\ new_execution' = log_execution(key[1], ActionFromStr(rows[key].expected_action),
                                          TRUE)
        /\ rows' = UpdateRow(rows, key, ExecutedUpdate(rows[key], clock))
        /\ SetTask(t, AfterRow(tk))
        /\ last' = [NoLast EXCEPT !.op = "update_scheduled_status", !.key = key,
                                  !.ok = TRUE, !.now = clock, !.task = t]
        /\ UNCHANGED <<clock, prices, rules, engineVars, mqttVars>>

\* the provider call returns with a failure: log_execution, then
\* update_scheduled_status reads the current row
ExecutionFails(t) ==
    LET tk == tasks[t]
        key == Head(tk.queue)
    IN  /\ tk.pc = "await"
        /\ new_execution' = log_execution(key[1], ActionFromStr(rows[key].expected_action),
                                          FALSE)
        /\ IF key \in DOMAIN rows
           THEN SetTask(t, [tk EXCEPT !.pc = "write", !.read = rows[key].retry_count,
                                      !.unow = clock])
           ELSE SetTask(t, AfterRow(tk))
        /\ last' = [NoLast EXCEPT !.op = "read_retry_count", !.key = key,
                                  !.now = clock, !.task = t]
        /\ UNCHANGED <<clock, rows, prices, rules, engineVars, mqttVars>>

\* update_scheduled_status, failure branch: the update is written
WriteRetry(t) ==
    LET tk == tasks[t]
        key == Head(tk.queue)
    IN  /\ tk.pc = "write"
        /\ rows' = UpdateRow(rows, key, RetryUpdate(rows[key], tk.read, tk.unow))
        /\ SetTask(t, AfterRow([tk EXCEPT !.read = 0, !.unow = 0]))
        /\ last' = [NoLast EXCEPT !.op = "update_scheduled_status", !.key = key,
                                  !.ok = FALSE, !.read = tk.read, !.now = tk.unow,
                                  !.task = t]
        /\ new_execution' = None
        /\ UNCHANGED <<clock, prices, rules, engineVars, mqttVars>>

\* execute_current_hour, a rule that is not scheduled this hour and has a
\* schedule today: the inferred TurnOff goes out
InferTurnOff(t) ==
    LET tk == tasks[t]
        id == Head(tk.off)
    IN  /\ tk.pc = "off"
        /\ has_schedule_today(id, tk.now)
        /\ SetTask(t, [tk EXCEPT !.pc = "off_await"])
        /\ last' = [NoLast EXCEPT !.op = "infer_turn_off", !.rule = id, !.now = tk.now,
                                  !.task = t]
        /\ new_execution' = None
        /\ UNCHANGED <<clock, rows, prices, rules, engineVars, mqttVars>>

\* execute_current_hour, a rule without a schedule today: nothing is done
SkipTurnOff(t) ==
    LET tk == tasks[t]
        id == Head(tk.off)
    IN  /\ tk.pc = "off"
        /\ ~has_schedule_today(id, tk.now)
        /\ SetTask(t, AfterTurnOff(tk))
        /\ last' = [NoLast EXCEPT !.op = "skip_turn_off", !.rule = id, !.now = tk.now,
                                  !.task = t]
        /\ new_execution' = None
        /\ UNCHANGED <<clock, rows, prices, rules, engineVars, mqttVars>>

\* the provider call of the inferred TurnOff returns: log_execution
TurnOffReturns(t) ==
    LET tk == tasks[t]
        id == Head(tk.off)
    IN  /\ tk.pc = "off_await"
        /\ SetTask(t, AfterTurnOff(tk))
        /\ \E ok \in BOOLEAN :
              /\ new_execution' = log_execution(id, TurnOff, ok)
              /\ last' = [NoLast EXCEPT !.op = "turn_off_returns", !.rule = id, !.ok = ok,
                                        !.now = tk.now, !.task = t]
        /\ UNCHANGED <<clock, rows, prices, rules, engineVars, mqttVars>>

\* A minute passes.  Time passes only while every running sweep is suspended
\* in a provider call; the jobs of the minute have fired unless no slot is free.
Tick ==
    /\ clock < MaxClock
    /\ phase \in {"running", "startup_sweep"}
    /\ \A t \in TaskIds : tasks[t].kind = "idle" \/ Awaiting(tasks[t])
    /\ phase = "running" /\ FreeSlots # {} =>
          /\ retryFired
          /\ clock % MinutesPerHour = 0 => hourlyFired
    /\ clock' = clock + 1
    /\ retryFired' = FALSE
    /\ hourlyFired' = FALSE
    /\ last' = [NoLast EXCEPT !.op = "tick", !.now = clock + 1]
    /\ new_execution' = None
    /\ UNCHANGED <<rows, prices, rules, tasks, phase, engineVars, mqttVars>>

\* the cron process is stopped and started again: its sweeps are gone, main
\* runs sync_prices_startup
Restart ==
    /\ phase = "running"
    /\ tasks' = [t \in TaskIds |-> Idle]
    /\ phase' = "startup_compute"
    /\ retryFired' = FALSE
    /\ hourlyFired' = FALSE
    /\ last' = [NoLast EXCEPT !.op = "restart"]
    /\ new_execution' = None
    /\ UNCHANGED <<clock, rows, prices, rules, engineVars, mqttVars>>

-----------------------------------------------------------------------------
(* The engine and the device protocol at rest *)

\* no AutomationEngine::run is in progress
NoRun ==
    [pc |-> "idle", now |-> 0, current_price |-> None, queue |-> << >>,
     evaluation |-> None]

\* sync_prices_daily is not running
NoDaily ==
    [pc |-> "idle", attempt |-> 0, success |-> FALSE, tomorrow |-> 0, calls |-> 0,
     slept |-> << >>, computed |-> 0, recomputed |-> 0]

\* no function has been applied
NoCall == [fn |-> "none"]

\* the reactive engine is not running
EngineAtRest ==
    /\ new_execution = None
    /\ engine = NoRun
    /\ call = NoCall
    /\ daily = NoDaily

\* MqttConnection::connect has not been called.  state is the position of
\* connect, connected is the flag of the connection, loop is the state of the
\* task that runs run_event_loop, result is what connect returned.
NoConnection == [state |-> "none", connected |-> FALSE, loop |-> "none", result |-> None]

\* the callers of MqttConnection::request
RequestIds == {1, 2}

\* A caller that has not called request.  n counts its calls, before is the
\* call that returned last, inbox is the receiving end of the oneshot channel
\* of the call in progress.
NoRequest ==
    [pc |-> "idle", n |-> 0, publish_topic |-> << >>, payload |-> << >>,
     topic_filter |-> << >>, published |-> FALSE, inbox |-> None, result |-> None,
     before |-> None]

\* no provider operation has been called
NoOperation ==
    [pc |-> "idle", op |-> "none", message_id |-> << >>, result |-> None,
     failure |-> None, disconnected |-> FALSE]

\* no provider operation is in progress: there is no session
ProtocolAtRest ==
    /\ connection = NoConnection
    /\ pending_requests = << >>
    /\ requests = [r \in RequestIds |-> NoRequest]
    /\ operation = NoOperation

-----------------------------------------------------------------------------
(* Specification of the cron process: two rules, the prices of two hours or *)
(* no price yet, an empty table, the process starts some minutes before an  *)
(* hour ends.                                                               *)

StartClock == 838

TimedRule ==
    Rule("time_schedule", TurnOn,
         [NoConfig EXCEPT !.time_range_start = Some(12), !.time_range_end = Some(14)],
         TRUE, 1)

CheapRule ==
    Rule("cheapest_hours", TurnOn, [NoConfig EXCEPT !.cheapest_hours = Some(1)], TRUE, 2)

Init ==
    /\ clock = StartClock
    /\ rows = << >>
    /\ prices \in {(13 :> 1) @@ (14 :> 2), << >>}
    /\ rules = (1 :> TimedRule) @@ (2 :> CheapRule)
    /\ tasks = [t \in TaskIds |-> Idle]
    /\ phase = "startup_compute"
    /\ retryFired = FALSE
    /\ hourlyFired = FALSE
    /\ last = NoLast
    /\ EngineAtRest
    /\ ProtocolAtRest

Next ==
    \/ StartupCompute
    \/ StartupMarkMissed
    \/ StartupRun
    \/ HourlyJob
    \/ RetryJob
    \/ \E t \in TaskIds : RetrySelect(t)
    \/ \E t \in TaskIds : RetryMarkMissed(t)
    \/ \E t \in TaskIds : ExecuteScheduledExecution(t)
    \/ \E t \in TaskIds : ExecutionSucceeds(t)
    \/ \E t \in TaskIds : ExecutionFails(t)
    \/ \E t \in TaskIds : WriteRetry(t)
    \/ \E t \in TaskIds : InferTurnOff(t)
    \/ \E t \in TaskIds : SkipTurnOff(t)
    \/ \E t \in TaskIds : TurnOffReturns(t)
    \/ Tick
    \/ Restart

Spec == Init /\ [][Next]_vars

-----------------------------------------------------------------------------
(* Specification of the retries of one row: one rule with one scheduled     *)
(* hour, the process starts early enough for five retries within the hour.  *)

RetryStartClock == 834

ManualRule == Rule("manual", TurnOn, NoConfig, TRUE, 1)

InitRetry ==
    /\ clock = RetryStartClock
    /\ rows = << >>
    /\ prices = (13 :> 1) @@ (14 :> 2)
    /\ rules = (1 :> ManualRule) @@ (2 :> CheapRule)
    /\ tasks = [t \in TaskIds |-> Idle]
    /\ phase = "startup_compute"
    /\ retryFired = FALSE
    /\ hourlyFired = FALSE
    /\ last = NoLast
    /\ EngineAtRest
    /\ ProtocolAtRest

SpecRetry == InitRetry /\ [][Next]_vars

-----------------------------------------------------------------------------
(* Specification of schedule computation alone: the rule configuration and  *)
(* the price table are drawn from bounded sets, the actions compute.        *)

SampleHours == {22, 23, 24, 25}

PriceTables == UNION {[S -> 1..MaxPrice] : S \in SUBSET SampleHours}

StartTexts == {None, Some(22), Some(23)}

EndTexts == {None, Some(-1), Some(0), Some(22)}

HoursNeededValues == {None} \cup {Some(n) : n \in 0..MaxHoursNeeded}

ThresholdValues == {None} \cup {Some(p) : p \in 1..MaxPrice}

CheapestHoursConfigs ==
    {[NoConfig EXCEPT !.cheapest_hours = n, !.time_range_start = s, !.time_range_end = e] :
        n \in HoursNeededValues, s \in StartTexts, e \in EndTexts}

PriceThresholdConfigs ==
    {[NoConfig EXCEPT !.price_threshold = t, !.comparison = Some(c)] :
        t \in ThresholdValues, c \in {"below", "above"}}

TimeScheduleConfigs ==
    {[NoConfig EXCEPT !.time_range_start = s, !.time_range_end = e] :
        s \in StartTexts, e \in EndTexts}

\* rules whose schedule depends on the price table
PricedRules ==
    {Rule("cheapest_hours", TurnOn, c, TRUE, 1) : c \in CheapestHoursConfigs}
    \cup {Rule("price_threshold", TurnOn, c, TRUE, 1) : c \in PriceThresholdConfigs}
    \cup {Rule("manual", TurnOn, NoConfig, TRUE, 1)}

\* rules whose schedule depends on the date alone
ClockRules ==
    {Rule("time_schedule", TurnOn, c, en, 1) : c \in TimeScheduleConfigs, en \in BOOLEAN}

OtherRule == Rule("manual", TurnOff, NoConfig, TRUE, 2)

InitCalc ==
    /\ clock = 0
    /\ rows = << >>
    /\ \/ /\ prices \in PriceTables
          /\ rules \in {(1 :> r) @@ (2 :> OtherRule) : r \in PricedRules}
       \/ /\ prices = << >>
          /\ rules \in {(1 :> r) @@ (2 :> OtherRule) : r \in ClockRules}
    /\ tasks = [t \in TaskIds |-> Idle]
    /\ phase = "calc"
    /\ retryFired = FALSE
    /\ hourlyFired = FALSE
    /\ last = NoLast
    /\ EngineAtRest
    /\ ProtocolAtRest

NextCalc ==
    \/ \E date \in Dates : ComputeScheduleForRule(1, date)
    \/ \E date \in Dates : ComputeScheduleForDate(date)

SpecCalc == InitCalc /\ [][NextCalc]_vars

-----------------------------------------------------------------------------
(* Properties of schedule computation *)

IsCompute == last.op \in {"compute_schedule_for_rule", "compute_schedule_for_date"}

\* the scheduled hours of a rule in the table
HoursOfRule(rule_id) == {k[2] : k \in RowsOfRule(rows, rule_id)}

\* the hours the last step inserted for a rule
NewHoursOfRule(rule_id) == {k[2] : k \in {n \in last.new : n[1] = rule_id}}

\* The window of a CheapestHours rule on a date, as the specification states
\* it, over the price points that exist: start > end crosses midnight.
WindowIsStated(cfg) ==
    \/ cfg.time_range_start = None /\ cfg.time_range_end = None
    \/ /\ cfg.time_range_start # None /\ cfg.time_range_start[1] \in 0..23
       /\ cfg.time_range_end # None /\ cfg.time_range_end[1] \in 0..23

WindowCandidates(cfg, date) ==
    IF cfg.time_range_start = None
    THEN {t \in DOMAIN prices : DateOf(t) = date}
    ELSE LET s == cfg.time_range_start[1]
             e == cfg.time_range_end[1]
         IN  IF s > e
             THEN {t \in DOMAIN prices :
                      \/ DateOf(t) = date /\ HourOf(t) \in s..23
                      \/ DateOf(t) = date + 1 /\ HourOf(t) \in 0..e}
             ELSE {t \in DOMAIN prices : DateOf(t) = date /\ HourOf(t) \in s..e}

\* C7: schedule computation is idempotent: right after compute_for_rule or
\* compute_for_date has run, the same call again inserts no row, returns 0
\* and leaves the table and every field of every row unchanged.
ComputeIsIdempotent ==
    /\ last.op = "compute_schedule_for_rule" =>
           compute_schedule_for_rule_internal(rows, last.rule, last.date)
               = [rows |-> rows, count |-> 0]
    /\ last.op = "compute_schedule_for_date" =>
           compute_schedule_for_date(rows, last.date) = [rows |-> rows, count |-> 0]

\* a second call has run on a table that holds rows of the rule, and returned 0
WitnessComputeTwice ==
    /\ last.op = "compute_schedule_for_rule"
    /\ last.count = 0
    /\ last.new = {}
    /\ RowsOfRule(rows, last.rule) # {}
    /\ calculate_timestamps_for_rule(rules[last.rule], last.date) # << >>

\* C8: a CheapestHours rule with N hours, computed on a table without rows of
\* the rule, gets exactly min(N, number of price points in its window) rows,
\* and every produced hour is priced <= every window hour not produced.
CheapestHoursAreMinimal ==
    \A id \in last.fresh :
        LET cfg == rules[id].config
            W == WindowCandidates(cfg, last.date)
            P == HoursOfRule(id)
        IN  ( /\ IsCompute
              /\ rules[id].rule_type = "cheapest_hours"
              /\ cfg.cheapest_hours # None
              /\ WindowIsStated(cfg) )
            => /\ Cardinality(P) = Min(cfg.cheapest_hours[1], Cardinality(W))
               /\ \A p \in P, q \in W \ P :
                      p \in DOMAIN prices /\ prices[p] <= prices[q]

\* N hours were produced and a costlier hour of the window was left out
WitnessCheapestHours ==
    /\ last.op = "compute_schedule_for_rule"
    /\ last.rule \in last.fresh
    /\ rules[last.rule].rule_type = "cheapest_hours"
    /\ rules[last.rule].config.cheapest_hours = Some(MaxHoursNeeded)
    /\ WindowIsStated(rules[last.rule].config)
    /\ Cardinality(HoursOfRule(last.rule)) = MaxHoursNeeded
    /\ \E q \in WindowCandidates(rules[last.rule].config, last.date) \ HoursOfRule(last.rule) :
           \E p \in HoursOfRule(last.rule) : prices[p] < prices[q]

\* C9: the hours a CheapestHours computation inserts lie in the stated
\* window: for start > end the hours start..23 of the date and 0..end of the
\* next date, for start <= end the hours start..end of the date, without a
\* window all hours of the date; and when N covers the whole window, exactly
\* the price points of the window are scheduled.
CheapestHoursCandidates ==
    \A id \in DOMAIN rules :
        LET cfg == rules[id].config
            W == WindowCandidates(cfg, last.date)
        IN  ( /\ IsCompute
              /\ rules[id].rule_type = "cheapest_hours"
              /\ WindowIsStated(cfg) )
            => /\ NewHoursOfRule(id) \subseteq W
               /\ ( /\ id \in last.fresh
                    /\ UnwrapOr(cfg.cheapest_hours, DefaultHoursNeeded) >= Cardinality(W) )
                  => HoursOfRule(id) = W

\* a window that crosses midnight was computed: hours of both dates were
\* inserted and price points outside the window exist
WitnessOvernightCandidates ==
    /\ last.op = "compute_schedule_for_rule"
    /\ last.rule \in last.fresh
    /\ rules[last.rule].rule_type = "cheapest_hours"
    /\ rules[last.rule].config.time_range_start = Some(23)
    /\ rules[last.rule].config.time_range_end = Some(0)
    /\ \E t \in NewHoursOfRule(last.rule) : DateOf(t) = last.date
    /\ \E t \in NewHoursOfRule(last.rule) : DateOf(t) = last.date + 1
    /\ \E t \in DOMAIN prices : DateOf(t) = last.date /\ HourOf(t) < 23
    /\ \E t \in DOMAIN prices : DateOf(t) = last.date + 1 /\ HourOf(t) > 0

\* C10: a PriceThreshold rule, computed on a table without rows of the rule,
\* gets exactly the hours of the date whose price satisfies the configured
\* comparison: below the threshold for "below", above it for "above".
ThresholdComparisonIsHonoured ==
    \A id \in last.fresh :
        LET cfg == rules[id].config
        IN  ( /\ IsCompute
              /\ rules[id].rule_type = "price_threshold"
              /\ cfg.price_threshold # None
              /\ cfg.comparison \in {Some("below"), Some("above")} )
            => HoursOfRule(id) =
                   {t \in DOMAIN prices :
                       /\ DateOf(t) = last.date
                       /\ cfg.comparison = Some("below") => prices[t] < cfg.price_threshold[1]
                       /\ cfg.comparison = Some("above") => prices[t] > cfg.price_threshold[1]}

-----------------------------------------------------------------------------
(* Properties of scheduled execution, retry and missed detection *)

Terminal == {Executed, Failed, Missed}

\* C1: Executed, Failed and Missed are terminal: no step of the hourly sweep,
\* the retry sweep, mark_missed_hours or update_scheduled_status changes the
\* status of a row that has one of them.
TerminalStatusIsFinal ==
    [][\A k \in DOMAIN rows :
          (rows[k].status \in Terminal /\ k \in DOMAIN rows')
              => rows'[k].status = rows[k].status]_vars

\* C2: a Pending or Retrying row has retry_count < 5, a Failed row has the
\* retry_count 5 that made it Failed, and no row has retry_count > 5.
RetryCountIsBounded ==
    \A k \in DOMAIN rows :
        /\ rows[k].retry_count <= MaxRetryCount
        /\ rows[k].status \in {Pending, Retrying} => rows[k].retry_count < MaxRetryCount
        /\ rows[k].status = Failed => rows[k].retry_count = MaxRetryCount

\* C3: the update a scheduled run writes is determined by its result: success
\* gives Executed without next_retry_at; failure gives a retry_count one above
\* the retry_count the update read, and with it Failed without next_retry_at
\* when it is >= 5, else Retrying with next_retry_at later than the failure.
StatusFollowsResult ==
    (last.op = "update_scheduled_status" /\ last.key \in DOMAIN rows) =>
        LET row == rows[last.key]
        IN  IF last.ok
            THEN row.status = Executed /\ row.next_retry_at = None
            ELSE /\ row.retry_count = last.read + 1
                 /\ IF row.retry_count >= 5
                    THEN row.status = Failed /\ row.next_retry_at = None
                    ELSE /\ row.status = Retrying
                         /\ row.next_retry_at # None
                         /\ row.next_retry_at[1] > last.now

\* the fifth failure of a row has been written
WitnessFifthFailure ==
    /\ last.op = "update_scheduled_status"
    /\ ~last.ok
    /\ last.read = 4
    /\ rows[last.key].status = Failed

\* C4: mark_missed_hours sets exactly the Pending rows whose hour is before
\* the start of the current hour to Missed and changes nothing else: no other
\* row, no other field, no row added or removed.
MarkMissedFrame ==
    [][last'.op = "mark_missed_hours" =>
          /\ DOMAIN rows' = DOMAIN rows
          /\ \A k \in DOMAIN rows :
                rows'[k] = IF rows[k].status = Pending /\ k[2] * MinutesPerHour + MinutesPerHour <= clock
                           THEN [rows[k] EXCEPT !.status = Missed]
                           ELSE rows[k]]_vars

\* mark_missed_hours has run on a table with a Pending row of a passed hour
\* and Pending rows of the current and of a later hour
WitnessMarkMissed ==
    /\ last.op = "mark_missed_hours"
    /\ \E k \in DOMAIN rows :
          /\ rows[k].status = Missed /\ rows[k].last_retry_at = None
          /\ k[2] < CurrentHourStart(clock)
    /\ \E k \in DOMAIN rows : rows[k].status = Pending /\ k[2] = CurrentHourStart(clock)
    /\ \E k \in DOMAIN rows : rows[k].status = Pending /\ k[2] > CurrentHourStart(clock)

\* a row that the retry sweep has set to Missed
MissedByRetry(row) == row.status = Missed /\ row.last_retry_at # None

\* C5: the retry sweep takes exactly the Retrying rows with next_retry_at <=
\* now; a taken row whose hour has passed is set to Missed, and a row that the
\* retry sweep has set to Missed gets no device command afterwards.
RetryDueIsHandled ==
    /\ last.op = "retry_failed_executions" =>
          last.new = {k \in DOMAIN rows :
                         /\ rows[k].status = Retrying
                         /\ rows[k].next_retry_at # None
                         /\ rows[k].next_retry_at[1] <= last.now}
    /\ last.op = "retry_missed" =>
          /\ last.key[2] < CurrentHourStart(last.now)
          /\ rows[last.key].status = Missed
    /\ last.op = "execute_scheduled_execution" => ~MissedByRetry(rows[last.key])

\* C6: an inferred TurnOff goes only to an enabled TurnOn rule that has a row
\* on the current day and no row, of whatever status, at the current hour.
InferredTurnOffIsJustified ==
    last.op = "infer_turn_off" =>
        /\ rules[last.rule].is_enabled
        /\ rules[last.rule].action = TurnOn
        /\ \E k \in DOMAIN rows : k[1] = last.rule /\ DateOf(k[2]) = TodayOf(last.now)
        /\ ~\E k \in DOMAIN rows : k[1] = last.rule /\ k[2] = CurrentHourStart(last.now)

-----------------------------------------------------------------------------
(* Properties of the time_schedule arm *)

\* C11: a TimeSchedule rule with start hour s and end hour e, computed on a
\* table without rows of the rule, gets the hours s..e-1 of the date (the end
\* hour is not scheduled) when s <= e; when s > e it gets the hours s..23 of
\* the date and hours of the next date up to the end, with or without the end
\* hour.  No price is looked at.
TimeScheduleIsHalfOpen ==
    \A id \in last.fresh :
        LET cfg == rules[id].config
            s == cfg.time_range_start[1]
            e == cfg.time_range_end[1]
            H == HoursOfRule(id)
            d == last.date
        IN  ( /\ IsCompute
              /\ rules[id].rule_type = "time_schedule"
              /\ cfg.time_range_start # None /\ cfg.time_range_end # None
              /\ s \in 0..23 /\ e \in 0..23 )
            => IF s <= e
               THEN H = {d * HoursPerDay + h : h \in s..(e - 1)}
               ELSE /\ {d * HoursPerDay + h : h \in s..23} \subseteq H
                    /\ {(d + 1) * HoursPerDay + h : h \in 0..(e - 1)} \subseteq H
                    /\ H \subseteq {d * HoursPerDay + h : h \in s..23}
                                   \cup {(d + 1) * HoursPerDay + h : h \in 0..e}

-----------------------------------------------------------------------------
(* integrations/mod.rs: what a provider call returns *)

ProviderError ==
    {"AuthenticationFailed", "DeviceNotFound", "ConnectionError", "RateLimited",
     "InvalidCredentials", "Timeout", "Unknown"}

\* Result<T, E>
Ok(v) == [ok |-> TRUE, value |-> v]

Err(e) == [ok |-> FALSE, error |-> e]

\* Result::ok()
OkOption(r) == IF r.ok THEN Some(r.value) ELSE None

\* the results of turn_on and turn_off: a DeviceActionResult or a ProviderError
ActionAnswers ==
    {Ok([success |-> s, message |-> m]) : s \in BOOLEAN, m \in {None, Some("message")}}
    \cup {Err(e) : e \in ProviderError}

\* the results of get_device_state: a DeviceState or a ProviderError
StateAnswers ==
    {Ok([is_on |-> b]) : b \in BOOLEAN} \cup {Err("ConnectionError"), Err("AuthenticationFailed")}

\* the results of refresh_credentials: the new credentials or a ProviderError
RefreshAnswers == {Ok("refreshed"), Err("AuthenticationFailed"), Err("ConnectionError")}

\* What the database and the provider answer during one execute_rule: whether
\* the device with its integration is found, the provider is registered and
\* the stored credentials parse, and the results of the provider calls.
ExecuteAnswers ==
    [device : BOOLEAN, provider : BOOLEAN, credentials : BOOLEAN, state : StateAnswers,
     first : ActionAnswers, refresh : RefreshAnswers, second : ActionAnswers]

-----------------------------------------------------------------------------
(* automation_engine.rs: execute_rule *)

\* a provider call and the credentials it is made with
ProviderCall(op, credentials) == [op |-> op, credentials |-> credentials]

\* an execute_single_action that resolves Toggle without the state
execute_single_action_toggle_on(action, state_before, credentials) ==
    IF action = TurnOff
    THEN ProviderCall("turn_off", credentials)
    ELSE ProviderCall("turn_on", credentials)

\* execute_single_action: the provider call that an action is dispatched to;
\* state_before.as_ref().map(|s| s.is_on).unwrap_or(false) decides a Toggle
execute_single_action(action, state_before, credentials) ==
    CASE action = TurnOn -> ProviderCall("turn_on", credentials)
      [] action = TurnOff -> ProviderCall("turn_off", credentials)
      [] action = Toggle ->
            IF UnwrapOr(IF state_before = None THEN None ELSE Some(state_before[1].is_on),
                        FALSE)
            THEN ProviderCall("turn_off", credentials)
            ELSE ProviderCall("turn_on", credentials)

\* Err(AuthenticationFailed(_)) | Err(InvalidCredentials)
IsAuthError(r) == ~r.ok /\ r.error \in {"AuthenticationFailed", "InvalidCredentials"}

\* an execute_action_with_retry that refreshes and retries after any error
execute_action_with_retry_any_error(action, state_before, answers) ==
    LET first_call == execute_single_action(action, state_before, "stored")
    IN  IF ~answers.first.ok
        THEN IF answers.refresh.ok
             THEN [calls |-> <<first_call, ProviderCall("refresh_credentials", "stored"),
                               execute_single_action(action, state_before,
                                                     answers.refresh.value)>>,
                   result |-> answers.second]
             ELSE [calls |-> <<first_call, ProviderCall("refresh_credentials", "stored")>>,
                   result |-> Err("AuthenticationFailed")]
        ELSE [calls |-> <<first_call>>, result |-> answers.first]

\* execute_action_with_retry: the provider calls that are made, in order, and
\* the result that is returned.  update_integration_credentials writes the
\* database, its failure is logged only.
execute_action_with_retry(action, state_before, answers) ==
    LET first_call == execute_single_action(action, state_before, "stored")
    IN  IF IsAuthError(answers.first)
        THEN IF answers.refresh.ok
             THEN [calls |-> <<first_call, ProviderCall("refresh_credentials", "stored"),
                               execute_single_action(action, state_before,
                                                     answers.refresh.value)>>,
                   result |-> answers.second]
             ELSE [calls |-> <<first_call, ProviderCall("refresh_credentials", "stored")>>,
                   result |-> Err("AuthenticationFailed")]
        ELSE [calls |-> <<first_call>>, result |-> answers.first]

\* the ExecutionResult of execute_rule (rule_id, success, error_message,
\* device_state_before) with the provider calls that were made
ExecutionResult(rule_id, success, error_message, state_before, calls) ==
    [rule_id |-> rule_id, success |-> success, error_message |-> error_message,
     device_state_before |-> state_before, calls |-> calls]

\* the result of execute_rule once the device, the provider and the
\* credentials are there: the state is read, the action is executed
ExecuteOnProvider(rule_id, action, answers) ==
    LET state_before == OkOption(answers.state)
        r == execute_action_with_retry(action, state_before, answers)
    IN  ExecutionResult(rule_id,
                        r.result.ok /\ r.result.value.success,
                        IF r.result.ok THEN r.result.value.message
                        ELSE Some(r.result.error),
                        state_before,
                        <<ProviderCall("get_device_state", "stored")>> \o r.calls)

\* an execute_rule that parses the credentials only after it has used them
execute_rule_credentials_last(rule_id, action, answers) ==
    IF ~answers.device
    THEN ExecutionResult(rule_id, FALSE, Some("Device or integration not found"), None,
                         << >>)
    ELSE IF ~answers.provider
    THEN ExecutionResult(rule_id, FALSE, Some("Provider not found"), None, << >>)
    ELSE ExecuteOnProvider(rule_id, action, answers)

\* execute_rule
execute_rule(rule_id, action, answers) ==
    IF ~answers.device
    THEN ExecutionResult(rule_id, FALSE, Some("Device or integration not found"), None,
                         << >>)
    ELSE IF ~answers.provider
    THEN ExecutionResult(rule_id, FALSE, Some("Provider not found"), None, << >>)
    ELSE IF ~answers.credentials
    THEN ExecutionResult(rule_id, FALSE, Some("Invalid credentials"), None, << >>)
    ELSE ExecuteOnProvider(rule_id, action, answers)

-----------------------------------------------------------------------------
(* Specification of one rule execution: the action of the rule and the       *)
(* answers of the database and of the provider are drawn, execute_rule is    *)
(* applied to them.                                                          *)

cronVars == <<clock, rows, prices, rules, tasks, phase, retryFired, hourlyFired, last>>

\* no cron process and no table content
CronAtRest ==
    /\ clock = 0
    /\ rows = << >>
    /\ prices = << >>
    /\ rules = << >>
    /\ tasks = [t \in TaskIds |-> Idle]
    /\ phase = "none"
    /\ retryFired = FALSE
    /\ hourlyFired = FALSE
    /\ last = NoLast

ExecuteRule ==
    /\ call.fn = "execute_rule"
    /\ call.result = None
    /\ call' = [call EXCEPT !.result = Some(execute_rule(call.rule_id, call.action,
                                                         call.answers))]
    /\ UNCHANGED <<cronVars, new_execution, engine, daily, mqttVars>>

InitExecute ==
    /\ CronAtRest
    /\ ProtocolAtRest
    /\ new_execution = None
    /\ engine = NoRun
    /\ daily = NoDaily
    /\ call \in {[fn |-> "execute_rule", rule_id |-> 1, action |-> a, answers |-> w,
                  result |-> None] : a \in {TurnOn, TurnOff, Toggle}, w \in ExecuteAnswers}

NextExecute == ExecuteRule

SpecExecute == InitExecute /\ [][NextExecute]_vars

\* the execute_rule that has been applied
RuleWasExecuted == call.fn = "execute_rule" /\ call.result # None

\* the turn_on and turn_off calls among the provider calls of the execution
ActionCalls == SelectSeq(call.result[1].calls, LAMBDA c : c.op \in {"turn_on", "turn_off"})

\* the refresh_credentials calls of the execution
RefreshCalls == SelectSeq(call.result[1].calls, LAMBDA c : c.op = "refresh_credentials")

\* C12: a Toggle is dispatched to turn_off exactly when the state captured
\* before the action is known and says that the device is on, and to turn_on
\* when the state is unknown or off; a TurnOn is dispatched to turn_on and a
\* TurnOff to turn_off whatever the state is.  Every action call of the
\* execution is dispatched this way.
ToggleFollowsStateBefore ==
    (RuleWasExecuted /\ ActionCalls # << >>) =>
        LET state == call.answers.state
            known_on == state.ok /\ state.value.is_on
        IN  \A i \in 1..Len(ActionCalls) :
                ActionCalls[i].op =
                    CASE call.action = TurnOn -> "turn_on"
                      [] call.action = TurnOff -> "turn_off"
                      [] call.action = Toggle -> IF known_on THEN "turn_off" ELSE "turn_on"

\* a Toggle with an unknown state has been dispatched to turn_on
WitnessToggleUnknownState ==
    /\ RuleWasExecuted
    /\ call.action = Toggle
    /\ ~call.answers.state.ok
    /\ ActionCalls # << >>
    /\ ActionCalls[1].op = "turn_on"

\* C13: one execution refreshes the credentials at most once, and only after
\* the first action call returned AuthenticationFailed or InvalidCredentials.
\* After a refresh that succeeded the action is called once more, with the
\* refreshed credentials, and the result of that call is the result of the
\* execution; after a refresh that failed no second call is made and the
\* execution fails; after any other result of the first call there is neither
\* a refresh nor a second call.
RefreshAtMostOnce ==
    (RuleWasExecuted /\ ActionCalls # << >>) =>
        LET w == call.answers
            res == call.result[1]
        IN  /\ Len(RefreshCalls) <= 1
            /\ Len(ActionCalls) <= 2
            /\ ActionCalls[1].credentials = "stored"
            /\ Len(RefreshCalls) = 1 <=> IsAuthError(w.first)
            /\ Len(ActionCalls) = 2 <=> (IsAuthError(w.first) /\ w.refresh.ok)
            /\ Len(ActionCalls) = 2 =>
                  /\ ActionCalls[2].credentials = w.refresh.value
                  /\ res.success = (w.second.ok /\ w.second.value.success)
            /\ (IsAuthError(w.first) /\ ~w.refresh.ok) => ~res.success
            /\ ~IsAuthError(w.first) => res.success = (w.first.ok /\ w.first.value.success)

\* the credentials were refreshed and the second call failed on them as well
WitnessSecondAuthFailure ==
    /\ RuleWasExecuted
    /\ IsAuthError(call.answers.first)
    /\ call.answers.refresh.ok
    /\ IsAuthError(call.answers.second)
    /\ Len(ActionCalls) = 2
    /\ Len(RefreshCalls) = 1
    /\ ~call.result[1].success

\* C23: when the device with its integration, the provider or parsable
\* credentials are missing, execute_rule makes no provider call and returns a
\* result without success, with an error message and without a state.
MissingPartsFailAtOnce ==
    ( /\ RuleWasExecuted
      /\ ~(call.answers.device /\ call.answers.provider /\ call.answers.credentials) )
    => /\ call.result[1].calls = << >>
       /\ ~call.result[1].success
       /\ call.result[1].error_message # None
       /\ call.result[1].device_state_before = None

\* execute_rule has run for a device whose provider is registered and whose
\* stored credentials do not parse, with a provider that would have answered
WitnessCredentialsDoNotParse ==
    /\ RuleWasExecuted
    /\ call.answers.device
    /\ call.answers.provider
    /\ ~call.answers.credentials
    /\ call.answers.state = Ok([is_on |-> TRUE])
    /\ call.answers.first = Ok([success |-> TRUE, message |-> None])
    /\ call.result[1].error_message = Some("Invalid credentials")

-----------------------------------------------------------------------------
(* integrations/mqtt.rs and integrations/meross_mqtt.rs: texts *)

tableVars == <<clock, rows, prices, rules, tasks, phase, retryFired, hourlyFired>>

\* str::contains.  A text is a sequence of characters; the fixed parts of a
\* topic are one character each.
Contains(text, pattern) ==
    \E i \in 1..(Len(text) - Len(pattern) + 1) :
        SubSeq(text, i, i + Len(pattern) - 1) = pattern

Wildcard == <<"*">>

\* the test of run_event_loop on a pending request that never holds
MatchesNothing(topic, topic_filter) == FALSE

\* topic.contains(&req.topic_filter) || req.topic_filter == "*"
Matches(topic, topic_filter) == Contains(topic, topic_filter) \/ topic_filter = Wildcard

\* credentials["user_id"]
UserId == <<"7">>

\* generate_app_id: 16 hexadecimal digits, one digit here
AppId == <<"c">>

OtherAppId == <<"d">>

\* generate_message_id: 32 random hexadecimal digits, two digits here
MessageIds == {<<"a", "b">>, <<"b", "a">>}

\* the external id of the device
DeviceUuid == <<"e">>

\* format!("/appliance/{}/subscribe", device_uuid)
build_device_topic(device_uuid) == <<"/appliance/">> \o device_uuid \o <<"/subscribe">>

\* format!("/app/{}-{}/subscribe", self.user_id, self.app_id)
build_client_topic(user_id, app_id) ==
    <<"/app/">> \o user_id \o <<"-">> \o app_id \o <<"/subscribe">>

\* the topic that MerossMqttClient::connect subscribes to
ClientTopic == build_client_topic(UserId, AppId)

\* the topics of the publishes that the broker sends to the client
InboundTopics == {ClientTopic, build_client_topic(UserId, OtherAppId)}

\* MerossMessage: header.message_id and the state carried by the payload
Payloads == {[message_id |-> <<"a", "b">>, onoff |-> 1], [message_id |-> <<"b", "a">>, onoff |-> 0]}

\* the response filters of the callers of request
Filters == {Wildcard, <<"-">> \o AppId, <<"a", "b">>}

-----------------------------------------------------------------------------
(* integrations/mqtt.rs: MqttConnection *)

\* the sending end of the oneshot channel of the call in progress of caller r
Sender(r) == <<r, requests[r].n>>

\* the table holds the PendingRequest of the call in progress of caller r
HasEntry(r) == \E i \in 1..Len(pending_requests) : pending_requests[i].tx = Sender(r)

\* an event loop that gives the message to the last pending request that matches
MatchedIdxLast(pending, topic) ==
    LET S == {i \in 1..Len(pending) : Matches(topic, pending[i].topic_filter)}
    IN  IF S = {} THEN None ELSE Some(CHOOSE i \in S : \A j \in S : i >= j)

\* the first pending request that matches, if any
MatchedIdx(pending, topic) ==
    LET S == {i \in 1..Len(pending) : Matches(topic, pending[i].topic_filter)}
    IN  IF S = {} THEN None ELSE Some(CHOOSE i \in S : \A j \in S : i <= j)

\* Vec::remove(idx)
RemoveAt(s, i) == SubSeq(s, 1, i - 1) \o SubSeq(s, i + 1, Len(s))

\* a timeout branch that leaves the table as it is
RetainAll(pending, topic_filter) == pending

\* pending.retain(|r| r.topic_filter != response_topic_filter)
RetainOthers(pending, topic_filter) ==
    SelectSeq(pending, LAMBDA e : e.topic_filter # topic_filter)

\* an is_connected that does not read the flag
AlwaysConnected(conn) == TRUE

\* is_connected
is_connected(conn) == conn.connected

\* the calls of request that the callers have made on the connection
CallsMade == requests[1].n + requests[2].n

\* MqttConnection::connect up to the wait for the acknowledgment: the event
\* loop is spawned, the flag is false
Connecting == [state |-> "connecting", connected |-> FALSE, loop |-> "running", result |-> None]

\* connect, called on its own
Connect ==
    /\ connection.state = "none"
    /\ connection' = Connecting
    /\ last' = [op |-> "connect"]
    /\ UNCHANGED <<tableVars, new_execution, engineVars, pending_requests, requests,
                   operation>>

\* run_event_loop, ConnAck with code Success: the flag is set, connect returns
\* the connection
ConnAckSuccess ==
    /\ connection.state = "connecting"
    /\ connection' = [connection EXCEPT !.state = "established", !.connected = TRUE,
                                        !.result = Some(Ok("MqttConnection"))]
    /\ last' = [op |-> "connack", success |-> TRUE]
    /\ UNCHANGED <<tableVars, new_execution, engineVars, pending_requests, requests,
                   operation>>

\* run_event_loop, ConnAck with another code: the loop ends, connect returns
\* ConnectionFailed
ConnAckRejected ==
    /\ connection.state = "connecting"
    /\ connection' = [connection EXCEPT !.state = "failed", !.loop = "ended",
                                        !.result = Some(Err("ConnectionFailed"))]
    /\ last' = [op |-> "connack", success |-> FALSE]
    /\ UNCHANGED <<tableVars, new_execution, engineVars, pending_requests, requests,
                   operation>>

\* run_event_loop, an error of poll before the acknowledgment: the flag is
\* cleared, the table is cleared, the loop ends, connect returns ConnectionFailed
ConnectTransportError ==
    /\ connection.state = "connecting"
    /\ connection' = [connection EXCEPT !.state = "failed", !.connected = FALSE,
                                        !.loop = "ended",
                                        !.result = Some(Err("ConnectionFailed"))]
    /\ pending_requests' = << >>
    /\ last' = [op |-> "connect_error"]
    /\ UNCHANGED <<tableVars, new_execution, engineVars, requests, operation>>

\* connect, no acknowledgment within the 10 seconds: ConnectionFailed
ConnectTimeout ==
    /\ connection.state = "connecting"
    /\ connection' = [connection EXCEPT !.state = "failed",
                                        !.result = Some(Err("ConnectionFailed"))]
    /\ last' = [op |-> "connect_timeout"]
    /\ UNCHANGED <<tableVars, new_execution, engineVars, pending_requests, requests,
                   operation>>

\* request up to the registration: the flag is read, a connection that is not
\* connected returns Disconnected.  Only a connection that connect returned
\* can be asked.
RequestEffect(r, publish_topic, payload, topic_filter) ==
    LET q == requests[r]
        c == [NoRequest EXCEPT
                !.n = q.n + 1, !.publish_topic = publish_topic, !.payload = payload,
                !.topic_filter = topic_filter,
                !.before = IF q.n = 0 THEN None
                           ELSE Some([n |-> q.n, topic_filter |-> q.topic_filter,
                                      result |-> IF q.result[1].ok THEN "message"
                                                 ELSE q.result[1].error])]
    IN  /\ q.pc \in {"idle", "returned"}
        /\ CallsMade < MaxCalls
        /\ connection.state = "established"
        /\ requests' = [requests EXCEPT ![r] =
                            IF is_connected(connection)
                            THEN [c EXCEPT !.pc = "register"]
                            ELSE [c EXCEPT !.pc = "returned",
                                           !.result = Some(Err("Disconnected"))]]
        /\ last' = [op |-> "request", request |-> r, connected |-> connection.connected]

\* request, called by a caller of the connection
Request(r) ==
    /\ \E topic_filter \in Filters :
          RequestEffect(r, build_device_topic(DeviceUuid), << >>, topic_filter)
    /\ UNCHANGED <<tableVars, new_execution, engineVars, connection, pending_requests,
                   operation>>

\* request: the PendingRequest is pushed
Register(r) ==
    /\ requests[r].pc = "register"
    /\ pending_requests' = Append(pending_requests,
                                  [tx |-> Sender(r),
                                   topic_filter |-> requests[r].topic_filter])
    /\ requests' = [requests EXCEPT ![r].pc = "publish"]
    /\ last' = [op |-> "register", request |-> r]
    /\ UNCHANGED <<tableVars, new_execution, engineVars, connection, operation>>

\* request: publish hands the message to the event loop
PublishSucceeds(r) ==
    /\ requests[r].pc = "publish"
    /\ connection.loop = "running"
    /\ requests' = [requests EXCEPT ![r].pc = "wait", ![r].published = TRUE]
    /\ last' = [op |-> "publish", request |-> r, ok |-> TRUE]
    /\ UNCHANGED <<tableVars, new_execution, engineVars, connection, pending_requests,
                   operation>>

\* request: publish fails, the event loop is gone; request returns PublishFailed
PublishFails(r) ==
    /\ requests[r].pc = "publish"
    /\ connection.loop # "running"
    /\ requests' = [requests EXCEPT ![r].pc = "returned",
                                    ![r].result = Some(Err("PublishFailed"))]
    /\ last' = [op |-> "publish", request |-> r, ok |-> FALSE]
    /\ UNCHANGED <<tableVars, new_execution, engineVars, connection, pending_requests,
                   operation>>

\* request: the message arrives on the channel, request returns it
Receive(r) ==
    /\ requests[r].pc = "wait"
    /\ requests[r].inbox # None
    /\ requests' = [requests EXCEPT ![r].pc = "returned",
                                    ![r].result = Some(Ok(requests[r].inbox[1]))]
    /\ last' = [op |-> "receive", request |-> r]
    /\ UNCHANGED <<tableVars, new_execution, engineVars, connection, pending_requests,
                   operation>>

\* request: the timeout passes while the channel is open and empty; the
\* entries with the filter of the call are removed, request returns Timeout
Timeout(r) ==
    /\ requests[r].pc = "wait"
    /\ requests[r].inbox = None
    /\ HasEntry(r)
    /\ pending_requests' = RetainOthers(pending_requests, requests[r].topic_filter)
    /\ requests' = [requests EXCEPT ![r].pc = "returned",
                                    ![r].result = Some(Err("Timeout"))]
    /\ last' = [op |-> "timeout", request |-> r]
    /\ UNCHANGED <<tableVars, new_execution, engineVars, connection, operation>>

\* request: the sending end was dropped with its entry, request returns
\* Disconnected
SenderDropped(r) ==
    /\ requests[r].pc = "wait"
    /\ requests[r].inbox = None
    /\ ~HasEntry(r)
    /\ requests' = [requests EXCEPT ![r].pc = "returned",
                                    ![r].result = Some(Err("Disconnected"))]
    /\ last' = [op |-> "sender_dropped", request |-> r]
    /\ UNCHANGED <<tableVars, new_execution, engineVars, connection, pending_requests,
                   operation>>

\* run_event_loop, an incoming Publish: the first pending request that
\* matches the topic is removed and gets the message; the message is lost
\* when the receiving end of that request is gone
Deliver ==
    \E topic \in InboundTopics, payload \in Payloads :
        LET m == MatchedIdx(pending_requests, topic)
            msg == [topic |-> topic, payload |-> payload]
        IN  /\ connection.state = "established"
            /\ connection.loop = "running"
            /\ IF m = None
               THEN UNCHANGED <<pending_requests, requests>>
               ELSE LET tx == pending_requests[m[1]].tx
                        r == tx[1]
                    IN  /\ pending_requests' = RemoveAt(pending_requests, m[1])
                        /\ requests' =
                              IF tx = Sender(r) /\ requests[r].pc \in {"publish", "wait"}
                              THEN [requests EXCEPT ![r].inbox = Some(msg)]
                              ELSE requests
            /\ last' = [op |-> "deliver", topic |-> topic, payload |-> payload,
                        to |-> IF m = None THEN None ELSE Some(pending_requests[m[1]].tx)]
            /\ UNCHANGED <<tableVars, new_execution, engineVars, connection, operation>>

\* an error of poll that clears the flag and ends the loop with the table
\* as it is
LoopErrorKeepsTable ==
    /\ connection.state = "established"
    /\ connection.loop = "running"
    /\ connection' = [connection EXCEPT !.connected = FALSE, !.loop = "ended"]
    /\ last' = [op |-> "loop_error"]
    /\ UNCHANGED <<tableVars, new_execution, engineVars, pending_requests, requests,
                   operation>>

\* run_event_loop, an error of poll: the flag is cleared, the table is
\* cleared, the loop ends
LoopError ==
    /\ connection.state = "established"
    /\ connection.loop = "running"
    /\ connection' = [connection EXCEPT !.connected = FALSE, !.loop = "ended"]
    /\ pending_requests' = << >>
    /\ last' = [op |-> "loop_error"]
    /\ UNCHANGED <<tableVars, new_execution, engineVars, requests, operation>>

-----------------------------------------------------------------------------
(* Specification of one connection with concurrent callers of request *)

InitMqtt ==
    /\ CronAtRest
    /\ EngineAtRest
    /\ ProtocolAtRest

NextMqtt ==
    \/ Connect
    \/ ConnAckSuccess
    \/ ConnAckRejected
    \/ ConnectTransportError
    \/ ConnectTimeout
    \/ \E r \in RequestIds : Request(r)
    \/ \E r \in RequestIds : Register(r)
    \/ \E r \in RequestIds : PublishSucceeds(r)
    \/ \E r \in RequestIds : PublishFails(r)
    \/ \E r \in RequestIds : Receive(r)
    \/ \E r \in RequestIds : Timeout(r)
    \/ \E r \in RequestIds : SenderDropped(r)
    \/ Deliver
    \/ LoopError

SpecMqtt == InitMqtt /\ [][NextMqtt]_vars

\* the entries of the table that call n of caller r registered
EntriesOf(r, n) ==
    {i \in 1..Len(pending_requests) : pending_requests[i].tx = <<r, n>>}

\* C14: a call of request whose wait runs into the timeout returns Timeout,
\* and from then on the table holds no entry of that call.  A call that the
\* same caller makes next with the same filter registers one entry, which is
\* the only entry of that caller with that filter.
TimeoutReleasesEntry ==
    \A r \in RequestIds :
        LET q == requests[r]
        IN  /\ (last.op = "timeout" /\ last.request = r) =>
                  (q.pc = "returned" /\ q.result = Some(Err("Timeout")))
            /\ (q.pc = "returned" /\ q.result = Some(Err("Timeout"))) =>
                  EntriesOf(r, q.n) = {}
            /\ (q.before # None /\ q.before[1].result = "Timeout") =>
                  /\ EntriesOf(r, q.before[1].n) = {}
                  /\ (/\ last.op = "register"
                      /\ last.request = r
                      /\ q.before[1].topic_filter = q.topic_filter) =>
                        /\ Cardinality(EntriesOf(r, q.n)) = 1
                        /\ {i \in 1..Len(pending_requests) :
                               /\ pending_requests[i].tx[1] = r
                               /\ pending_requests[i].topic_filter = q.topic_filter}
                              = EntriesOf(r, q.n)

\* a caller whose call timed out has called again with the same filter and
\* has got a message
WitnessSecondRequestAnswered ==
    \E r \in RequestIds :
        /\ requests[r].before # None
        /\ requests[r].before[1].result = "Timeout"
        /\ requests[r].before[1].topic_filter = requests[r].topic_filter
        /\ requests[r].pc = "returned"
        /\ requests[r].result # None
        /\ requests[r].result[1].ok

\* C16: a rejected acknowledgment, a transport error before the
\* acknowledgment and a wait of 10 seconds without acknowledgment each make
\* connect return ConnectionFailed; no connection exists then, no request has
\* been made and the table is empty.  A request on a connection whose flag is
\* false returns Disconnected, has registered no entry and has published
\* nothing.
ConnectFailsBeforeAnyRequest ==
    /\ ( \/ (last.op = "connack" /\ ~last.success)
         \/ last.op = "connect_error"
         \/ last.op = "connect_timeout" ) => connection.state = "failed"
    /\ connection.state = "failed" =>
          /\ connection.result = Some(Err("ConnectionFailed"))
          /\ \A r \in RequestIds : requests[r] = NoRequest
          /\ pending_requests = << >>
    /\ \A r \in RequestIds :
          (last.op = "request" /\ last.request = r /\ ~last.connected) =>
              /\ requests[r].pc = "returned"
              /\ requests[r].result = Some(Err("Disconnected"))
              /\ ~requests[r].published
              /\ EntriesOf(r, requests[r].n) = {}

\* a request has been made on a connection that had lost its flag
WitnessRequestOnDisconnected ==
    /\ connection.state = "established"
    /\ ~connection.connected
    /\ last.op = "request"
    /\ ~last.connected
    /\ requests[last.request].result = Some(Err("Disconnected"))

-----------------------------------------------------------------------------
(* integrations/meross.rs and integrations/meross_mqtt.rs: the operations *)

Operations == {"get_device_state", "turn_on", "turn_off"}

\* the credentials of the integration: complete, without "token", or without
\* "user_id" or "key"
CredentialKinds == {"complete", "no_token", "no_user_id_or_key"}

\* send_command, after request: the payload of the response, or
\* ConnectionError for any error of request
send_command(response) ==
    IF response.ok THEN Ok(response.value.payload) ELSE Err("ConnectionError")

\* MerossMqttClient::turn_on and turn_off, after send_command
switch(sent, on) ==
    IF sent.ok
    THEN Ok([success |-> TRUE, new_state |-> Some([is_on |-> on])])
    ELSE Ok([success |-> FALSE, new_state |-> None])

\* MerossMqttClient::get_state, after send_command: the error is passed on
get_state(sent) == IF sent.ok THEN Ok([is_on |-> sent.value.onoff = 1]) ELSE sent

\* the result of an operation whose session was connected
OperationResult(op, sent) ==
    CASE op = "turn_on" -> switch(sent, TRUE)
      [] op = "turn_off" -> switch(sent, FALSE)
      [] op = "get_device_state" -> get_state(sent)

\* MerossProvider, the Err arm of mqtt_client.connect(): the default state,
\* or an action result without success
Fallback(op) ==
    IF op = "get_device_state"
    THEN Ok([is_on |-> FALSE])
    ELSE Ok([success |-> FALSE, new_state |-> None])

\* get_device_state, turn_on or turn_off of MerossProvider is called: the
\* credentials are validated, a client is created and connects
OperationStart ==
    \E op \in Operations, credentials \in CredentialKinds :
        /\ operation.pc \in {"idle", "returned"}
        /\ IF credentials = "complete"
           THEN /\ operation' = [NoOperation EXCEPT !.pc = "connecting", !.op = op]
                /\ connection' = Connecting
           ELSE /\ operation' = [NoOperation EXCEPT
                                    !.pc = "returned", !.op = op,
                                    !.result = Some(Err("AuthenticationFailed"))]
                /\ connection' = NoConnection
        /\ pending_requests' = << >>
        /\ requests' = [r \in RequestIds |-> NoRequest]
        /\ last' = [op |-> "operation", operation |-> op, credentials |-> credentials]
        /\ UNCHANGED <<tableVars, new_execution, engineVars>>

\* MerossMqttClient::connect returns the error of MqttConnection::connect: the
\* operation returns its fallback
MerossConnectFails ==
    /\ operation.pc = "connecting"
    /\ connection.state = "failed"
    /\ operation' = [operation EXCEPT !.pc = "returned",
                                      !.result = Some(Fallback(operation.op)),
                                      !.failure = Some("connect")]
    /\ last' = [op |-> "operation_returns"]
    /\ UNCHANGED <<tableVars, new_execution, engineVars, connection, pending_requests,
                   requests>>

\* MerossMqttClient::connect subscribes to the client topic; subscribe fails
\* when the event loop is gone, and the operation returns its fallback
MerossSubscribe ==
    /\ operation.pc = "connecting"
    /\ connection.state = "established"
    /\ operation' = IF connection.loop = "running"
                    THEN [operation EXCEPT !.pc = "connected"]
                    ELSE [operation EXCEPT !.pc = "returned",
                                           !.result = Some(Fallback(operation.op)),
                                           !.failure = Some("subscribe")]
    /\ last' = [op |-> "subscribe", ok |-> connection.loop = "running"]
    /\ UNCHANGED <<tableVars, new_execution, engineVars, connection, pending_requests,
                   requests>>

\* send_command: the message gets a random message_id, request is called with
\* the device topic and with the message_id as the response filter
SendCommand ==
    /\ operation.pc = "connected"
    /\ \E message_id \in MessageIds :
          /\ RequestEffect(1, build_device_topic(DeviceUuid),
                           [message_id |-> message_id], message_id)
          /\ operation' = [operation EXCEPT !.pc = "requesting", !.message_id = message_id]
    /\ UNCHANGED <<tableVars, new_execution, engineVars, connection, pending_requests>>

\* an operation that returns its result and leaves the session connected
OperationReturnsKeepsSession ==
    /\ operation.pc = "requesting"
    /\ requests[1].pc = "returned"
    /\ LET response == requests[1].result[1]
       IN  operation' = [operation EXCEPT
                            !.pc = "returned",
                            !.result = Some(OperationResult(operation.op,
                                                            send_command(response))),
                            !.failure = IF response.ok THEN None ELSE Some("request")]
    /\ last' = [op |-> "operation_returns"]
    /\ UNCHANGED <<tableVars, new_execution, engineVars, connection, pending_requests,
                   requests>>

\* request has returned: send_command and the operation of the client return,
\* disconnect is called, the operation of the provider returns
OperationReturns ==
    /\ operation.pc = "requesting"
    /\ requests[1].pc = "returned"
    /\ LET response == requests[1].result[1]
       IN  operation' = [operation EXCEPT
                            !.pc = "returned",
                            !.result = Some(OperationResult(operation.op,
                                                            send_command(response))),
                            !.failure = IF response.ok THEN None ELSE Some("request"),
                            !.disconnected = TRUE]
    /\ connection' = [connection EXCEPT !.state = "closed"]
    /\ last' = [op |-> "operation_returns"]
    /\ UNCHANGED <<tableVars, new_execution, engineVars, pending_requests, requests>>

-----------------------------------------------------------------------------
(* Specification of the provider operations, one session per operation.  No *)
(* state of this specification enables Receive (SendCommandGetsNoMessage),  *)
(* it is not among the steps.                                               *)

InitMeross ==
    /\ CronAtRest
    /\ EngineAtRest
    /\ ProtocolAtRest

NextMeross ==
    \/ OperationStart
    \/ ConnAckSuccess
    \/ ConnAckRejected
    \/ ConnectTransportError
    \/ ConnectTimeout
    \/ MerossConnectFails
    \/ MerossSubscribe
    \/ SendCommand
    \/ \E r \in RequestIds : Register(r)
    \/ \E r \in RequestIds : PublishSucceeds(r)
    \/ \E r \in RequestIds : PublishFails(r)
    \/ \E r \in RequestIds : Timeout(r)
    \/ \E r \in RequestIds : SenderDropped(r)
    \/ Deliver
    \/ LoopError
    \/ OperationReturns

SpecMeross == InitMeross /\ [][NextMeross]_vars

\* no message reaches the channel of a send_command
SendCommandGetsNoMessage == \A r \in RequestIds : requests[r].inbox = None

\* C15: while a send_command waits for its response, a publish on the client
\* topic whose header carries the message_id of the request reaches the
\* request, which will return its payload; a publish with another message_id
\* does not reach it.
ResponseIsMatchedByMessageId ==
    ( /\ last.op = "deliver"
      /\ last.topic = ClientTopic
      /\ operation.pc = "requesting"
      /\ requests[1].pc = "wait" )
    => IF last.payload.message_id = operation.message_id
       THEN requests[1].inbox = Some([topic |-> last.topic, payload |-> last.payload])
       ELSE requests[1].inbox = None

\* C17: an operation that met a connection failure, while connecting, while
\* subscribing or in its request, returns no error: turn_on and turn_off
\* return a result without success and without new state, get_device_state
\* returns the default state.
ConnectionFailureIsNoError ==
    (operation.pc = "returned" /\ operation.failure # None) =>
        /\ operation.result[1].ok
        /\ operation.result[1] = Fallback(operation.op)

\* C25: sessions are connect-per-operation: an operation that starts creates
\* a new client that connects, with no request on it; a request is made once
\* on it; when the request has returned, with a response or with a failure,
\* disconnect is called before the operation returns; the session of an
\* operation that has returned carries no request of a later operation.
ConnectPerOperation ==
    [][/\ (operation.pc \in {"idle", "returned"} /\ operation'.pc = "connecting") =>
             /\ connection' = Connecting
             /\ pending_requests' = << >>
             /\ CallsMade' = 0
       /\ (operation.pc = "requesting" /\ operation'.pc = "returned") =>
             /\ operation'.disconnected
             /\ connection'.state = "closed"
             /\ CallsMade' = 1
       /\ CallsMade' <= 1
       /\ connection.state = "closed" =>
             \/ connection'.state = "closed" /\ requests' = requests
             \/ operation'.pc \in {"connecting", "returned"}
                /\ connection' \in {Connecting, NoConnection}
                /\ CallsMade' = 0]_vars

\* the request of an operation has failed and the operation has returned
\* after its disconnect
WitnessDisconnectAfterFailedRequest ==
    /\ operation.pc = "returned"
    /\ operation.failure = Some("request")
    /\ operation.disconnected
    /\ connection.state = "closed"
    /\ requests[1].n = 1

-----------------------------------------------------------------------------
(* Properties of the rows schedule computation meets *)

\* C19: schedule computation inserts a row only for a (rule id, scheduled
\* hour) that has none and never overwrites: a step of compute_for_date or
\* compute_for_rule leaves every row that was present as it was, in every
\* field, and every row it adds has status Pending.
ComputeNeverOverwrites ==
    [][IsCompute' =>
          /\ \A key \in DOMAIN rows : key \in DOMAIN rows' /\ rows'[key] = rows[key]
          /\ \A key \in DOMAIN rows' \ DOMAIN rows :
                rows'[key] = NewScheduledExecution(rules[key[1]].action)]_vars

\* a computation has run over a row that had left Pending, for the hour of
\* that row
WitnessComputeOverHandledRow ==
    /\ IsCompute
    /\ \E key \in DOMAIN rows :
          /\ rows[key].status # Pending
          /\ \E i \in DOMAIN calculate_timestamps_for_rule(rules[key[1]], last.date) :
                calculate_timestamps_for_rule(rules[key[1]], last.date)[i] = key[2]

-----------------------------------------------------------------------------
(* automation_engine.rs: the evaluation of a rule by AutomationEngine::run *)

MinutesPerDay == MinutesPerHour * HoursPerDay

\* now.time() of a wall clock value in minutes, and its hour() and minute()
TimeOf(now) == now % MinutesPerDay

HourOfNow(now) == TimeOf(now) \div MinutesPerHour

MinuteOf(now) == now % MinutesPerHour

\* NaiveTime::parse_from_str(text, "%H:%M").  A configured time text is the
\* minute of the day it denotes, and -1 when it does not parse.
ParseTime(text) == IF text >= 0 /\ text < MinutesPerDay THEN Some(text) ELSE None

\* now.weekday() as the abbreviation evaluate_time_schedule uses; date 0 is a
\* Monday
Weekdays == <<"mon", "tue", "wed", "thu", "fri", "sat", "sun">>

WeekdayOf(now) == Weekdays[(TodayOf(now) % Len(Weekdays)) + 1]

\* str::to_lowercase over the day texts of the configurations
ToLowercase(d) ==
    CASE d \in {"Mon", "MON"} -> "mon"
      [] d \in {"Tue", "TUE"} -> "tue"
      [] OTHER -> d

\* get_current_price: the price stored for the hour that contains now
get_current_price(now) ==
    IF CurrentHourStart(now) \in DOMAIN prices
    THEN Some(prices[CurrentHourStart(now)])
    ELSE None

RuleEvaluation(rule_id, should_trigger, action, reason) ==
    [rule_id |-> rule_id, should_trigger |-> should_trigger, action |-> action,
     reason |-> reason]

\* a comparison that also triggers on a price equal to the threshold
evaluate_price_threshold_inclusive(rule_id, current_price, action) ==
    LET config == rules[rule_id].config
    IN  IF config.threshold = None \/ config.comparison = None
        THEN RuleEvaluation(rule_id, FALSE, action, "Invalid config")
        ELSE IF current_price = None
        THEN RuleEvaluation(rule_id, FALSE, action, "No current price available")
        ELSE RuleEvaluation(rule_id,
                            CASE config.comparison[1] = "below" ->
                                     current_price[1] <= config.threshold[1]
                              [] config.comparison[1] = "above" ->
                                     current_price[1] >= config.threshold[1]
                              [] OTHER -> FALSE,
                            action, "Price is compared with threshold")

\* evaluate_price_threshold: the config needs a number "threshold" and a text
\* "comparison"
evaluate_price_threshold(rule_id, current_price, action) ==
    LET config == rules[rule_id].config
    IN  IF config.threshold = None \/ config.comparison = None
        THEN RuleEvaluation(rule_id, FALSE, action, "Invalid config")
        ELSE IF current_price = None
        THEN RuleEvaluation(rule_id, FALSE, action, "No current price available")
        ELSE RuleEvaluation(rule_id,
                            CASE config.comparison[1] = "below" ->
                                     current_price[1] < config.threshold[1]
                              [] config.comparison[1] = "above" ->
                                     current_price[1] > config.threshold[1]
                              [] OTHER -> FALSE,
                            action, "Price is compared with threshold")

\* find_cheapest_hours_in_window, the query: the prices with
\* start_dt <= timestamp < end_dt ordered by price; prices of equal value come
\* in any order
WindowPrices(now, window_start, window_end) ==
    LET today == TodayOf(now)
        start_dt == today * MinutesPerDay + window_start
        end_dt == IF window_end > window_start
                  THEN today * MinutesPerDay + window_end
                  ELSE (today + 1) * MinutesPerDay + window_end
        S == {t \in DOMAIN prices :
                 t * MinutesPerHour >= start_dt /\ t * MinutesPerHour < end_dt}
    IN  {q \in Orders(S) : \A i, j \in 1..Cardinality(S) :
                               i < j => prices[q[i]] <= prices[q[j]]}

RECURSIVE SumPrices(_)
\* .iter().map(|p| p.price).sum()
SumPrices(ts) == IF ts = << >> THEN 0 ELSE prices[Head(ts)] + SumPrices(Tail(ts))

\* find_contiguous_cheapest: the block of hours_needed neighbours, in
\* timestamp order, with the lowest sum; the first one among equal sums
find_contiguous_cheapest(loaded, hours_needed) ==
    IF hours_needed < 0 \/ Len(loaded) < hours_needed
    THEN << >>
    ELSE LET sorted_prices == AscendingSeq({loaded[i] : i \in 1..Len(loaded)})
             Starts == 1..(Len(sorted_prices) - hours_needed + 1)
             Block(i) == SubSeq(sorted_prices, i, i + hours_needed - 1)
             best_start == CHOOSE i \in Starts :
                               \A j \in Starts :
                                   /\ SumPrices(Block(i)) <= SumPrices(Block(j))
                                   /\ j < i => SumPrices(Block(j)) > SumPrices(Block(i))
         IN  [k \in 1..hours_needed |-> HourOf(Block(best_start)[k])]

\* find_cheapest_hours_in_window, after the query
find_cheapest_hours_in_window(loaded, hours_needed, contiguous) ==
    IF contiguous
    THEN find_contiguous_cheapest(loaded, hours_needed)
    ELSE [k \in 1..Len(Take(loaded, hours_needed)) |-> HourOf(Take(loaded, hours_needed)[k])]

\* the config of a cheapest_hours rule deserializes and its window parses
WindowIsParsed(config) ==
    /\ config.hours_needed # None
    /\ config.window_start # None /\ ParseTime(config.window_start[1]) # None
    /\ config.window_end # None /\ ParseTime(config.window_end[1]) # None

\* evaluate_cheapest_hours; loaded is the answer of the price query
evaluate_cheapest_hours(rule_id, now, action, loaded) ==
    LET config == rules[rule_id].config
    IN  IF config.hours_needed = None \/ config.window_start = None
           \/ config.window_end = None
        THEN RuleEvaluation(rule_id, FALSE, action, "Invalid config")
        ELSE IF ParseTime(config.window_start[1]) = None
        THEN RuleEvaluation(rule_id, FALSE, action, "Invalid window_start format")
        ELSE IF ParseTime(config.window_end[1]) = None
        THEN RuleEvaluation(rule_id, FALSE, action, "Invalid window_end format")
        ELSE LET window_start == config.window_start[1]
                 window_end == config.window_end[1]
                 current_time == TimeOf(now)
                 in_window == IF window_start <= window_end
                              THEN current_time >= window_start /\ current_time < window_end
                              ELSE current_time >= window_start \/ current_time < window_end
                 cheapest_hours ==
                     find_cheapest_hours_in_window(loaded, config.hours_needed[1],
                                                   UnwrapOr(config.contiguous, FALSE))
                 is_cheap_hour == \E k \in DOMAIN cheapest_hours :
                                      cheapest_hours[k] = HourOfNow(now)
             IN  IF ~in_window
                 THEN RuleEvaluation(rule_id, FALSE, action, "Current time is outside window")
                 ELSE RuleEvaluation(rule_id, is_cheap_hour, action,
                                     IF is_cheap_hour
                                     THEN "Hour is one of the cheapest hours"
                                     ELSE "Hour is not among the cheapest hours")

\* the minutes after the scheduled time in which a time_schedule rule triggers
TriggerWindowMinutes == 5

\* evaluate_time_schedule
evaluate_time_schedule(rule_id, now, action) ==
    LET config == rules[rule_id].config
    IN  IF config.days = None \/ config.time = None
        THEN RuleEvaluation(rule_id, FALSE, action, "Invalid config")
        ELSE IF ~\E i \in DOMAIN config.days[1] :
                    ToLowercase(config.days[1][i]) = WeekdayOf(now)
        THEN RuleEvaluation(rule_id, FALSE, action, "Day is not in scheduled days")
        ELSE IF ParseTime(config.time[1]) = None
        THEN RuleEvaluation(rule_id, FALSE, action, "Invalid time format")
        ELSE LET scheduled_time == config.time[1]
                 should_trigger ==
                     /\ HourOfNow(now) = scheduled_time \div MinutesPerHour
                     /\ MinuteOf(now) >= scheduled_time % MinutesPerHour
                     /\ MinuteOf(now) < (scheduled_time % MinutesPerHour)
                                            + TriggerWindowMinutes
             IN  RuleEvaluation(rule_id, should_trigger, action,
                                IF should_trigger
                                THEN "Scheduled time matches"
                                ELSE "Current time doesn't match scheduled")

\* an evaluate_rule whose arm for manual rules triggers
evaluate_rule_manual_triggers(rule_id, now, current_price, loaded) ==
    RuleEvaluation(rule_id, rules[rule_id].rule_type = "manual",
                   ActionFromStr(rules[rule_id].action), "Manual rule")

\* evaluate_rule
evaluate_rule(rule_id, now, current_price, loaded) ==
    LET rule == rules[rule_id]
        action == ActionFromStr(rule.action)
    IN  CASE rule.rule_type = "price_threshold" ->
                 evaluate_price_threshold(rule_id, current_price, action)
          [] rule.rule_type = "cheapest_hours" ->
                 evaluate_cheapest_hours(rule_id, now, action, loaded)
          [] rule.rule_type = "time_schedule" ->
                 evaluate_time_schedule(rule_id, now, action)
          [] rule.rule_type = "manual" ->
                 RuleEvaluation(rule_id, FALSE, action, "Manual rules don't auto-trigger")
          [] OTHER -> RuleEvaluation(rule_id, FALSE, action, "Unknown rule type")

\* what the price query of the evaluation of a rule can answer; no query is
\* made unless the rule is a cheapest_hours rule whose window parses
LoadedPrices(rule_id, now) ==
    LET config == rules[rule_id].config
    IN  IF rules[rule_id].rule_type = "cheapest_hours" /\ WindowIsParsed(config)
        THEN WindowPrices(now, config.window_start[1], config.window_end[1])
        ELSE {<< >>}

-----------------------------------------------------------------------------
(* Specification of one rule evaluation: the rule, the price table and the   *)
(* time are drawn, run reads the current price and evaluates the rule.       *)

\* 13:58 and 14:00 of date 0
EvaluateClocks == {13 * MinutesPerHour + 58, 14 * MinutesPerHour}

\* price tables over the hours 13 and 14 of date 0
CurrentPriceTables == UNION {[S -> 1..MaxPrice] : S \in SUBSET {13, 14}}

ReactiveThresholdConfigs ==
    {[NoConfig EXCEPT !.threshold = t, !.comparison = c] :
        t \in ThresholdValues, c \in {None, Some("below"), Some("above"), Some("equal")}}

\* windows 13:00-15:00, 14:00-13:00 over midnight, and a text that is no time
ReactiveCheapestConfigs ==
    {[NoConfig EXCEPT !.hours_needed = Some(1), !.window_start = Some(w[1]),
                      !.window_end = Some(w[2]), !.contiguous = c] :
        w \in {<<13 * MinutesPerHour, 15 * MinutesPerHour>>,
               <<14 * MinutesPerHour, 13 * MinutesPerHour>>,
               <<-1, 15 * MinutesPerHour>>},
        c \in {None, Some(TRUE)}}
    \cup {NoConfig}

\* times 13:55 and 14:00, and a text that is no time
ReactiveScheduleConfigs ==
    {[NoConfig EXCEPT !.days = Some(d), !.time = Some(t)] :
        d \in {<<"Mon">>, <<"tue", "sun">>},
        t \in {13 * MinutesPerHour + 55, 14 * MinutesPerHour, -1}}

ReactiveRules ==
    {Rule("price_threshold", TurnOn, c, TRUE, 1) : c \in ReactiveThresholdConfigs}
    \cup {Rule("cheapest_hours", TurnOn, c, TRUE, 1) : c \in ReactiveCheapestConfigs}
    \cup {Rule("time_schedule", TurnOff, c, TRUE, 1) : c \in ReactiveScheduleConfigs}
    \cup {Rule("manual", TurnOn, NoConfig, TRUE, 1), Rule("scene", Toggle, NoConfig, TRUE, 1)}

\* run reads the time and the current price and evaluates the rule
EvaluateRule ==
    /\ call.fn = "evaluate_rule"
    /\ call.evaluation = None
    /\ \E loaded \in LoadedPrices(call.rule_id, clock) :
          call' = [call EXCEPT
                      !.now = clock,
                      !.current_price = get_current_price(clock),
                      !.evaluation = Some(evaluate_rule(call.rule_id, clock,
                                                        get_current_price(clock), loaded))]
    /\ UNCHANGED <<cronVars, new_execution, engine, daily, mqttVars>>

InitEvaluate ==
    /\ clock \in EvaluateClocks
    /\ rows = << >>
    /\ prices \in CurrentPriceTables
    /\ rules \in {(1 :> r) : r \in ReactiveRules}
    /\ tasks = [t \in TaskIds |-> Idle]
    /\ phase = "none"
    /\ retryFired = FALSE
    /\ hourlyFired = FALSE
    /\ last = NoLast
    /\ ProtocolAtRest
    /\ new_execution = None
    /\ engine = NoRun
    /\ daily = NoDaily
    /\ call = [fn |-> "evaluate_rule", rule_id |-> 1, now |-> 0, current_price |-> None,
               evaluation |-> None]

NextEvaluate == EvaluateRule

SpecEvaluate == InitEvaluate /\ [][NextEvaluate]_vars

\* the evaluation that has been made
RuleWasEvaluated == call.fn = "evaluate_rule" /\ call.evaluation # None

\* C20: the reactive evaluation of a price_threshold rule with a threshold
\* and a comparison triggers exactly when a price is stored for the current
\* hour and the comparison is "below" and that price is below the threshold,
\* or the comparison is "above" and that price is above the threshold.
ThresholdTriggersOnComparison ==
    LET config == rules[call.rule_id].config
        hour == CurrentHourStart(clock)
    IN  ( /\ RuleWasEvaluated
          /\ rules[call.rule_id].rule_type = "price_threshold"
          /\ config.threshold # None
          /\ config.comparison # None )
        => ( call.evaluation[1].should_trigger
             <=> /\ hour \in DOMAIN prices
                 /\ \/ config.comparison[1] = "below" /\ prices[hour] < config.threshold[1]
                    \/ config.comparison[1] = "above" /\ prices[hour] > config.threshold[1] )

\* a rule with comparison below was evaluated at a price below its threshold
\* and has triggered
WitnessPriceBelowThreshold ==
    /\ RuleWasEvaluated
    /\ rules[call.rule_id].rule_type = "price_threshold"
    /\ rules[call.rule_id].config.comparison = Some("below")
    /\ call.current_price # None
    /\ rules[call.rule_id].config.threshold # None
    /\ call.current_price[1] < rules[call.rule_id].config.threshold[1]
    /\ call.evaluation[1].should_trigger

-----------------------------------------------------------------------------
(* automation_engine.rs: AutomationEngine::run, called by POST /run of the   *)
(* API server at any time                                                    *)

\* the enabled rules in any order
get_enabled_rules_unordered == Orders(EnabledRuleIds)

\* get_enabled_rules: the enabled rules ordered by priority; rules of equal
\* priority come in any order
get_enabled_rules ==
    {q \in Orders(EnabledRuleIds) :
        \A i, j \in 1..Cardinality(EnabledRuleIds) :
            i < j => rules[q[i]].priority <= rules[q[j]].priority}

\* run starts: the time, the current price and the enabled rules are read
RunBegin ==
    /\ engine.pc = "idle"
    /\ \E q \in get_enabled_rules :
          engine' = [NoRun EXCEPT !.pc = "loop", !.now = clock,
                                  !.current_price = get_current_price(clock),
                                  !.queue = q]
    /\ last' = [NoLast EXCEPT !.op = "run", !.now = clock]
    /\ new_execution' = None
    /\ UNCHANGED <<tableVars, call, daily, mqttVars>>

\* the next rule is evaluated and does not trigger
RunSkip ==
    /\ engine.pc = "loop"
    /\ engine.queue # << >>
    /\ \E loaded \in LoadedPrices(Head(engine.queue), engine.now) :
          /\ ~evaluate_rule(Head(engine.queue), engine.now, engine.current_price,
                            loaded).should_trigger
          /\ engine' = [engine EXCEPT !.queue = Tail(engine.queue)]
    /\ last' = [NoLast EXCEPT !.op = "run_skip", !.rule = Head(engine.queue),
                              !.now = engine.now]
    /\ new_execution' = None
    /\ UNCHANGED <<tableVars, call, daily, mqttVars>>

\* the next rule is evaluated and triggers: execute_rule makes its provider
\* calls
RunExecute ==
    /\ engine.pc = "loop"
    /\ engine.queue # << >>
    /\ \E loaded \in LoadedPrices(Head(engine.queue), engine.now) :
          LET evaluation == evaluate_rule(Head(engine.queue), engine.now,
                                          engine.current_price, loaded)
          IN  /\ evaluation.should_trigger
              /\ engine' = [engine EXCEPT !.pc = "await", !.evaluation = Some(evaluation)]
    /\ last' = [NoLast EXCEPT !.op = "run_execute", !.rule = Head(engine.queue),
                              !.now = engine.now]
    /\ new_execution' = None
    /\ UNCHANGED <<tableVars, call, daily, mqttVars>>

\* execute_rule returns: log_execution, the result is pushed
RunReturns ==
    /\ engine.pc = "await"
    /\ \E ok \in BOOLEAN :
          /\ new_execution' = log_execution(Head(engine.queue),
                                            engine.evaluation[1].action, ok)
          /\ last' = [NoLast EXCEPT !.op = "run_returns", !.rule = Head(engine.queue),
                                    !.ok = ok, !.now = engine.now]
    /\ engine' = [engine EXCEPT !.pc = "loop", !.queue = Tail(engine.queue),
                                !.evaluation = None]
    /\ UNCHANGED <<tableVars, call, daily, mqttVars>>

\* every rule has been evaluated: run returns its results
RunEnd ==
    /\ engine.pc = "loop"
    /\ engine.queue = << >>
    /\ engine' = NoRun
    /\ last' = [NoLast EXCEPT !.op = "run_end"]
    /\ new_execution' = None
    /\ UNCHANGED <<tableVars, call, daily, mqttVars>>

-----------------------------------------------------------------------------
(* Specification of the engine: the cron process with its sweeps, and runs   *)
(* of the engine started through the API while it works.  Rule 1 is manual,  *)
(* rule 2 wants the cheapest hour, both for its schedule and when evaluated. *)

WindowedCheapRule ==
    Rule("cheapest_hours", TurnOn,
         [NoConfig EXCEPT !.cheapest_hours = Some(1), !.hours_needed = Some(1),
                          !.window_start = Some(13 * MinutesPerHour),
                          !.window_end = Some(15 * MinutesPerHour)],
         TRUE, 2)

InitEngine ==
    /\ clock = StartClock
    /\ rows = << >>
    /\ prices = (13 :> 1) @@ (14 :> 2)
    /\ rules = (1 :> ManualRule) @@ (2 :> WindowedCheapRule)
    /\ tasks = [t \in TaskIds |-> Idle]
    /\ phase = "startup_compute"
    /\ retryFired = FALSE
    /\ hourlyFired = FALSE
    /\ last = NoLast
    /\ EngineAtRest
    /\ ProtocolAtRest

NextEngine ==
    \/ StartupCompute
    \/ StartupMarkMissed
    \/ StartupRun
    \/ HourlyJob
    \/ RetryJob
    \/ \E t \in TaskIds : RetrySelect(t)
    \/ \E t \in TaskIds : RetryMarkMissed(t)
    \/ \E t \in TaskIds : ExecuteScheduledExecution(t)
    \/ \E t \in TaskIds : ExecutionSucceeds(t)
    \/ \E t \in TaskIds : ExecutionFails(t)
    \/ \E t \in TaskIds : WriteRetry(t)
    \/ \E t \in TaskIds : InferTurnOff(t)
    \/ \E t \in TaskIds : SkipTurnOff(t)
    \/ \E t \in TaskIds : TurnOffReturns(t)
    \/ Tick
    \/ RunBegin
    \/ RunSkip
    \/ RunExecute
    \/ RunReturns
    \/ RunEnd

SpecEngine == InitEngine /\ [][NextEngine]_vars

\* the provider call of a scheduled execution or of a retry returns in the step
ScheduledAttemptReturns(t) == tasks[t].pc = "await" /\ tasks'[t].pc # "await"

\* the provider call of an inferred turn-off returns in the step
InferredAttemptReturns(t) == tasks[t].pc = "off_await" /\ tasks'[t].pc # "off_await"

\* the provider call of a triggered rule of a run returns in the step
ReactiveAttemptReturns == engine.pc = "await" /\ engine'.pc # "await"

-----------------------------------------------------------------------------
(* Specification of runs of the engine alone: two rules with drawn types,    *)
(* configs, priorities and enabled flags, a drawn price table and time.      *)

\* the second rule: it triggers at a price below 2, or it is manual
SecondRules ==
    {Rule("price_threshold", TurnOff,
          [NoConfig EXCEPT !.threshold = Some(2), !.comparison = Some("below")], TRUE, 2),
     Rule("manual", TurnOn, NoConfig, TRUE, 2)}

Priorities == {1, 2}

InitRun ==
    /\ clock \in EvaluateClocks
    /\ rows = << >>
    /\ prices \in {(13 :> 1) @@ (14 :> 2), << >>}
    /\ rules \in {(1 :> [r1 EXCEPT !.priority = p1, !.is_enabled = e1])
                  @@ (2 :> [r2 EXCEPT !.priority = p2, !.is_enabled = e2]) :
                     r1 \in ReactiveRules, r2 \in SecondRules,
                     p1 \in Priorities, p2 \in Priorities,
                     e1 \in BOOLEAN, e2 \in BOOLEAN}
    /\ tasks = [t \in TaskIds |-> Idle]
    /\ phase = "none"
    /\ retryFired = FALSE
    /\ hourlyFired = FALSE
    /\ last = NoLast
    /\ EngineAtRest
    /\ ProtocolAtRest

NextRun ==
    \/ RunBegin
    \/ RunSkip
    \/ RunExecute
    \/ RunReturns
    \/ RunEnd

SpecRun == InitRun /\ [][NextRun]_vars

\* the config of the rule does not decode into the variant of its type, or
\* the type is manual or unknown
DoesNotDecode(rule_id) ==
    LET rule == rules[rule_id]
        config == rule.config
    IN  \/ rule.rule_type = "price_threshold"
           /\ (config.threshold = None \/ config.comparison = None)
        \/ rule.rule_type = "cheapest_hours"
           /\ (config.hours_needed = None \/ config.window_start = None
               \/ config.window_end = None)
        \/ rule.rule_type = "time_schedule" /\ (config.days = None \/ config.time = None)
        \/ rule.rule_type \notin {"price_threshold", "cheapest_hours", "time_schedule"}

\* C21: a rule whose config does not decode, or whose type is manual or
\* unknown, never aborts a run: its evaluation has should_trigger false and a
\* reason, the step of the run that evaluates it executes and logs nothing,
\* and the run goes on with the rules that remain.
UndecodableRuleIsSkipped ==
    [][ ( /\ engine.pc = "loop"
          /\ engine.queue # << >>
          /\ DoesNotDecode(Head(engine.queue))
          /\ engine' # engine )
        => /\ \A loaded \in LoadedPrices(Head(engine.queue), engine.now) :
                 LET evaluation == evaluate_rule(Head(engine.queue), engine.now,
                                                 engine.current_price, loaded)
                 IN  ~evaluation.should_trigger /\ evaluation.reason # ""
           /\ engine' = [engine EXCEPT !.queue = Tail(engine.queue)]
           /\ new_execution' = None ]_vars

\* a run has skipped a rule whose config does not decode and has another rule
\* to evaluate
WitnessUndecodableThenNext ==
    /\ last.op = "run_skip"
    /\ DoesNotDecode(last.rule)
    /\ rules[last.rule].rule_type # "manual"
    /\ engine.pc = "loop"
    /\ engine.queue # << >>

\* the rule the run evaluated or executed in its last step
RunWorksOn(rule_id) ==
    /\ last.op \in {"run_skip", "run_execute", "run_returns"}
    /\ last.rule = rule_id

\* the rules a run has not evaluated yet; a rule under execution has been
\* evaluated
NotYetEvaluated ==
    LET waiting == IF engine.pc = "await" THEN Tail(engine.queue) ELSE engine.queue
    IN  {waiting[i] : i \in DOMAIN waiting}

\* C26: a run evaluates enabled rules only, in ascending order of priority:
\* when a rule is evaluated, executed or logged, it is enabled, every enabled
\* rule of smaller priority has been evaluated before, and no enabled rule of
\* larger priority has been evaluated yet, so a triggered rule is executed and
\* logged before any rule of larger priority is evaluated; the run starts
\* with exactly the enabled rules.
RunFollowsPriority ==
    /\ \A id \in DOMAIN rules :
          RunWorksOn(id) =>
              /\ rules[id].is_enabled
              /\ \A other \in EnabledRuleIds :
                    rules[other].priority < rules[id].priority => other \notin NotYetEvaluated
              /\ \A other \in EnabledRuleIds :
                    rules[other].priority > rules[id].priority => other \in NotYetEvaluated
    /\ last.op = "run" => NotYetEvaluated = EnabledRuleIds
    /\ NotYetEvaluated \subseteq EnabledRuleIds

\* the rule with the larger id and the smaller priority has been executed and
\* logged while the other enabled rule waits
WitnessSmallerPriorityFirst ==
    /\ last.op = "run_returns"
    /\ last.rule = 2
    /\ new_execution # None
    /\ rules[1].is_enabled
    /\ rules[2].priority < rules[1].priority
    /\ engine.queue = <<1>>

-----------------------------------------------------------------------------
(* schedule_computation.rs: recompute_overnight_rules *)

\* the end hour delete_pending_overnight_for_rule falls back to
DefaultOvernightEnd == 8

\* rule_has_overnight_window: both hours parse and start > end
rule_has_overnight_window(rule) ==
    /\ rule.rule_type \in {"cheapest_hours", "time_schedule"}
    /\ ParseHour(rule.config.time_range_start) # None
    /\ ParseHour(rule.config.time_range_end) # None
    /\ ParseHour(rule.config.time_range_start)[1] > ParseHour(rule.config.time_range_end)[1]

\* delete_pending_overnight_for_rule: the Pending rows of the rule from
\* start_hour:00:00 of the date to end_hour:59:59 of the next date are
\* deleted.  and_hms_opt(..).unwrap() panics for an hour that is no hour of a
\* day.
delete_pending_overnight_for_rule(rws, rule_id, date) ==
    LET config == rules[rule_id].config
        start_hour == UnwrapOr(ParseHour(config.time_range_start), DefaultStartHour)
        end_hour == UnwrapOr(ParseHour(config.time_range_end), DefaultOvernightEnd)
        window_start == AndHmsOpt(date, start_hour)
        window_end == AndHmsOpt(date + 1, end_hour)
    IN  IF window_start = None \/ window_end = None
        THEN [panic |-> TRUE, rows |-> rws]
        ELSE LET deleted == {key \in DOMAIN rws :
                                /\ key[1] = rule_id
                                /\ rws[key].status = Pending
                                /\ key[2] >= window_start[1]
                                /\ key[2] <= window_end[1]}
             IN  [panic |-> FALSE, rows |-> [key \in DOMAIN rws \ deleted |-> rws[key]]]

RECURSIVE RecomputeForRules(_, _, _, _)
\* the loop of recompute_overnight_rules over the loaded rules; a panic ends
\* it at the rule it happens in
RecomputeForRules(rws, ids, today, total) ==
    IF ids = << >> THEN [rows |-> rws, count |-> total, panic |-> FALSE, rule |-> 0]
    ELSE IF ~rule_has_overnight_window(rules[Head(ids)])
    THEN RecomputeForRules(rws, Tail(ids), today, total)
    ELSE LET d == delete_pending_overnight_for_rule(rws, Head(ids), today)
             r == compute_schedule_for_rule_internal(d.rows, Head(ids), today)
         IN  IF d.panic
             THEN [rows |-> rws, count |-> total, panic |-> TRUE, rule |-> Head(ids)]
             ELSE RecomputeForRules(r.rows, Tail(ids), today, total + r.count)

recompute_overnight_rules(rws, today) ==
    RecomputeForRules(rws, AscendingSeq(EnabledRuleIds), today, 0)

\* the effect of recompute_overnight_rules() on the table; ok is false when
\* the call panicked, rule is the rule it panicked in
RecomputeOvernightEffect ==
    LET r == recompute_overnight_rules(rows, TodayOf(clock))
    IN  /\ rows' = r.rows
        /\ last' = [NoLast EXCEPT !.op = "recompute_overnight_rules",
                                  !.date = TodayOf(clock), !.count = r.count,
                                  !.ok = ~r.panic, !.rule = r.rule,
                                  !.new = DOMAIN r.rows \ DOMAIN rows]

\* recompute_overnight_rules()
RecomputeOvernightRules ==
    /\ RecomputeOvernightEffect
    /\ new_execution' = None
    /\ UNCHANGED <<clock, prices, rules, tasks, phase, retryFired, hourlyFired,
                   engineVars, mqttVars>>

-----------------------------------------------------------------------------
(* Specification of the overnight recomputation: two rules with windows over *)
(* midnight, the first with a drawn start hour, at 20:30 of date 0.          *)

\* start hours 22:00, 25:00, and a text that is no number
OvernightStartTexts == {Some(22), Some(25), Some(-1)}

OvernightRules ==
    {Rule(type, TurnOn,
          [NoConfig EXCEPT !.cheapest_hours = Some(1), !.time_range_start = s,
                           !.time_range_end = Some(0)],
          TRUE, 1) :
        type \in {"cheapest_hours", "time_schedule"}, s \in OvernightStartTexts}

LateCheapRule ==
    Rule("cheapest_hours", TurnOn,
         [NoConfig EXCEPT !.cheapest_hours = Some(1), !.time_range_start = Some(23),
                          !.time_range_end = Some(1)],
         TRUE, 2)

InitOvernight ==
    /\ clock = 20 * MinutesPerHour + 30
    /\ rows = << >>
    /\ prices \in PriceTables
    /\ rules \in {(1 :> r) @@ (2 :> LateCheapRule) : r \in OvernightRules}
    /\ tasks = [t \in TaskIds |-> Idle]
    /\ phase = "calc"
    /\ retryFired = FALSE
    /\ hourlyFired = FALSE
    /\ last = NoLast
    /\ EngineAtRest
    /\ ProtocolAtRest

NextOvernight ==
    \/ ComputeScheduleForDate(0)
    \/ RecomputeOvernightRules

SpecOvernight == InitOvernight /\ [][NextOvernight]_vars

\* C22: schedule computation never ends in a fatal error, whatever the
\* configs hold: the overnight recomputation completes, and every enabled
\* rule with a window over midnight is recomputed by it.
RecomputeCompletes ==
    last.op = "recompute_overnight_rules" =>
        /\ last.ok
        /\ \A id \in EnabledRuleIds :
              rule_has_overnight_window(rules[id]) =>
                  compute_schedule_for_rule_internal(rows, id, last.date).count = 0

-----------------------------------------------------------------------------
(* cron_runner.rs: sync_prices_daily, the job of 20:30 *)

\* MAX_RETRIES
MaxRetries == 5

\* INITIAL_DELAY_SECS, 120 seconds, in minutes of the clock
InitialDelayMinutes == 2

\* the number of points sync_prices_daily takes for a whole day
ExpectedPoints == 24

\* INITIAL_DELAY_SECS * (1 << (attempt - 1)) with a constant delay instead
DailyDelayConstant(attempt) == InitialDelayMinutes

\* INITIAL_DELAY_SECS * (1 << (attempt - 1))
DailyDelay(attempt) == InitialDelayMinutes * 2 ^ (attempt - 1)

\* the points of a date the price service returns: the first n hours of it
FetchedPrices(date, n) ==
    [t \in (date * HoursPerDay)..(date * HoursPerDay + n - 1) |-> 1 + (t % 2)]

\* the numbers of points a fetch returns: none, a day short of one, a day
FetchCounts == {0, ExpectedPoints - 1, ExpectedPoints}

\* store_prices: insert, or update on a conflict of the timestamp
store_prices(table, fetched) == fetched @@ table

\* what the loop does after an attempt: `while attempt <= MAX_RETRIES && !success`
DailyAfter(attempt, success) ==
    IF attempt <= MaxRetries /\ ~success
    THEN IF attempt > 0 THEN "sleep" ELSE "sync"
    ELSE "done"

\* the job starts: tomorrow is read from the clock, attempt = 0
DailyStart ==
    /\ daily.pc = "idle"
    /\ daily' = [NoDaily EXCEPT !.pc = DailyAfter(0, FALSE), !.tomorrow = TodayOf(clock) + 1]
    /\ last' = [NoLast EXCEPT !.op = "sync_prices_daily", !.now = clock]
    /\ UNCHANGED <<tableVars, new_execution, engine, call, mqttVars>>

\* tokio::time::sleep(delay_secs) before a retry
DailySleep ==
    /\ daily.pc = "sleep"
    /\ clock' = clock + DailyDelay(daily.attempt)
    /\ daily' = [daily EXCEPT !.pc = "sync",
                              !.slept = Append(@, DailyDelay(daily.attempt))]
    /\ last' = [NoLast EXCEPT !.op = "sleep", !.now = clock]
    /\ UNCHANGED <<rows, prices, rules, tasks, phase, retryFired, hourlyFired,
                   new_execution, engine, call, mqttVars>>

\* sync_tomorrow() returns Err: nothing is stored, attempt += 1
DailySyncFails ==
    /\ daily.pc = "sync"
    /\ daily' = [daily EXCEPT !.calls = @ + 1, !.attempt = @ + 1,
                              !.pc = DailyAfter(daily.attempt + 1, FALSE)]
    /\ last' = [NoLast EXCEPT !.op = "sync_tomorrow", !.ok = FALSE, !.now = clock]
    /\ UNCHANGED <<tableVars, new_execution, engine, call, mqttVars>>

\* sync_tomorrow() returns Ok(count) with count < 24: the points are stored,
\* attempt += 1
DailySyncShort ==
    /\ daily.pc = "sync"
    /\ \E n \in FetchCounts :
          /\ n < ExpectedPoints
          /\ prices' = store_prices(prices, FetchedPrices(TodayOf(clock) + 1, n))
          /\ last' = [NoLast EXCEPT !.op = "sync_tomorrow", !.ok = TRUE,
                                    !.count = n, !.now = clock]
    /\ daily' = [daily EXCEPT !.calls = @ + 1, !.attempt = @ + 1,
                              !.pc = DailyAfter(daily.attempt + 1, FALSE)]
    /\ UNCHANGED <<clock, rows, rules, tasks, phase, retryFired, hourlyFired,
                   new_execution, engine, call, mqttVars>>

\* sync_tomorrow() returns Ok(count) with count >= 24: the points are stored
\* by the price service, success = true
DailySyncEnough ==
    /\ daily.pc = "sync"
    /\ \E n \in FetchCounts :
          /\ n >= ExpectedPoints
          /\ prices' = store_prices(prices, FetchedPrices(TodayOf(clock) + 1, n))
          /\ last' = [NoLast EXCEPT !.op = "sync_tomorrow", !.ok = TRUE,
                                    !.count = n, !.now = clock]
    /\ daily' = [daily EXCEPT !.calls = @ + 1, !.success = TRUE, !.pc = "compute"]
    /\ UNCHANGED <<clock, rows, rules, tasks, phase, retryFired, hourlyFired,
                   new_execution, engine, call, mqttVars>>

\* the rest of the Ok arm, over the prices just stored:
\* compute_schedule_for_date(tomorrow), then recompute_overnight_rules().  A
\* panic of recompute_overnight_rules ends the job where it happens.
DailyCompute ==
    /\ daily.pc = "compute"
    /\ LET computed == compute_schedule_for_date(rows, daily.tomorrow)
           recomputed == recompute_overnight_rules(computed.rows, TodayOf(clock))
       IN  /\ rows' = recomputed.rows
           /\ daily' = [daily EXCEPT !.computed = @ + 1, !.recomputed = @ + 1,
                                     !.pc = IF recomputed.panic THEN "panicked"
                                            ELSE DailyAfter(daily.attempt, TRUE)]
           /\ last' = [NoLast EXCEPT !.op = "recompute_overnight_rules",
                                     !.date = TodayOf(clock), !.count = recomputed.count,
                                     !.ok = ~recomputed.panic, !.rule = recomputed.rule,
                                     !.new = DOMAIN recomputed.rows \ DOMAIN rows]
    /\ UNCHANGED <<clock, prices, rules, tasks, phase, retryFired, hourlyFired,
                   new_execution, engine, call, mqttVars>>

-----------------------------------------------------------------------------
(* Specification of the daily price job: it starts at 20:30 of date 0 with  *)
(* the prices of date 0 stored and the schedule of date 0 computed.  tokio  *)
(* runs the job and ends its sleeps, hence the weak fairness.               *)

\* 20:30 of date 0, the minute the job is scheduled at
DailyStartClock == 20 * MinutesPerHour + 30

\* the prices of 22:00 and 23:00 of date 0
TodayPriceTables == [{22, 23} -> 1..MaxPrice]

InitDaily ==
    /\ clock = DailyStartClock
    /\ prices \in TodayPriceTables
    /\ rules \in {(1 :> r) @@ (2 :> LateCheapRule) : r \in OvernightRules}
    /\ rows = compute_schedule_for_date(<< >>, 0).rows
    /\ tasks = [t \in TaskIds |-> Idle]
    /\ phase = "calc"
    /\ retryFired = FALSE
    /\ hourlyFired = FALSE
    /\ last = NoLast
    /\ EngineAtRest
    /\ ProtocolAtRest

\* the steps of the loop up to the stored day of prices
DailyLoop ==
    \/ DailyStart
    \/ DailySleep
    \/ DailySyncFails
    \/ DailySyncShort
    \/ DailySyncEnough

NextDaily ==
    \/ DailyLoop
    \/ DailyCompute

\* weak fairness of DailyCompute, which is enabled exactly where the job
\* stands before its schedule computation
DailyComputeIsTaken == []<>(daily.pc # "compute")

SpecDaily ==
    InitDaily /\ [][NextDaily]_vars /\ WF_vars(DailyLoop) /\ DailyComputeIsTaken

\* the stored points of a date
PointsOfDate(date) == {t \in DOMAIN prices : DateOf(t) = date}

\* what holds of the daily loop in every state: a retry follows only a fetch
\* that failed or returned fewer than 24 points, the waits are 2, 4, 8, 16
\* and 32 minutes, 62 in total, there are at most 6 attempts (the first and 5
\* retries), the loop is left at the first attempt with 24 points, the
\* schedule of the next day is then computed and the overnight rules are
\* recomputed once, and a loop left without success made all 6 attempts
DailyLoopState ==
    /\ daily.calls <= MaxRetries + 1
    /\ Len(daily.slept) <= MaxRetries
    /\ \A i \in 1..Len(daily.slept) : daily.slept[i] = InitialDelayMinutes * 2 ^ (i - 1)
    /\ clock - DailyStartClock <= InitialDelayMinutes * (2 ^ MaxRetries - 1)
    /\ daily.pc = "sleep" =>
          /\ last.op = "sync_tomorrow"
          /\ ~last.ok \/ last.count < ExpectedPoints
    /\ daily.success =>
          /\ daily.pc \in {"compute", "done", "panicked"}
          /\ Cardinality(PointsOfDate(daily.tomorrow)) >= ExpectedPoints
    /\ daily.computed = daily.recomputed
    /\ daily.computed = IF daily.success /\ daily.pc \in {"done", "panicked"} THEN 1 ELSE 0
    /\ daily.pc \in {"done", "panicked"} /\ ~daily.success => daily.calls = MaxRetries + 1

\* C24 as stated: the daily loop makes up to 5 attempts.
DailyMakesFiveAttempts == daily.calls <= MaxRetries

\* C24: the daily loop retries only while the next day has fewer than 24
\* points or the fetch fails, waits 2, 4, 8, 16 and 32 minutes before the
\* retries, makes up to 6 attempts (the first and up to 5 retries), stops at
\* the first attempt with at least 24 points, then computes the next day's
\* schedule and recomputes the overnight rules once, and always ends.
DailyLoopIsBounded ==
    /\ []DailyLoopState
    /\ <>(daily.pc \in {"done", "panicked"})

\* the sixth attempt, after all five waits, returns the whole day
WitnessSixthAttemptSucceeds ==
    /\ daily.pc = "done"
    /\ daily.success
    /\ daily.calls = MaxRetries + 1
    /\ daily.slept = <<2, 4, 8, 16, 32>>
    /\ daily.computed = 1

-----------------------------------------------------------------------------
(* services/scheduler.rs: find_cheapest_hours *)

\* (duration_minutes as f64 / 60.0).ceil()
CeilHours(duration_minutes) == -((-duration_minutes) \div MinutesPerHour)

\* `as usize` of an f64: a negative number becomes 0
AsUsize(x) == IF x < 0 THEN 0 ELSE x

\* a find_cheapest_hours that takes the first hours of the list as it is
find_cheapest_hours_unsorted(price_list, duration_minutes) ==
    Timestamps(Take(price_list, AsUsize(CeilHours(duration_minutes))))

find_cheapest_hours(price_list, duration_minutes) ==
    LET sorted_prices == SortByPrice(price_list)
        hours_needed == AsUsize(CeilHours(duration_minutes))
    IN  Timestamps(Take(sorted_prices, hours_needed))

FindCheapestHours ==
    /\ call.fn = "find_cheapest_hours"
    /\ call.result = None
    /\ call' = [call EXCEPT !.result = Some(find_cheapest_hours(call.prices,
                                                                call.duration_minutes))]
    /\ UNCHANGED <<cronVars, new_execution, engine, daily, mqttVars>>

-----------------------------------------------------------------------------
(* Specification of find_cheapest_hours: the function is applied to a drawn *)
(* list of price points and a drawn duration.                               *)

MaxPoints == 3

\* price points of two hours
PricePoints == [timestamp : {0, 1}, price : 1..MaxPrice]

PriceLists == UNION {[1..n -> PricePoints] : n \in 0..MaxPoints}

\* durations in minutes: negative, zero, within an hour, whole hours, more
\* hours than any list has
Durations == {-60, 0, 1, 60, 61, 120, 180, 240}

InitCheapest ==
    /\ CronAtRest
    /\ ProtocolAtRest
    /\ new_execution = None
    /\ engine = NoRun
    /\ daily = NoDaily
    /\ call \in {[fn |-> "find_cheapest_hours", prices |-> p, duration_minutes |-> d,
                  result |-> None] : p \in PriceLists, d \in Durations}

NextCheapest == FindCheapestHours

SpecCheapest == InitCheapest /\ [][NextCheapest]_vars

\* the ways to take the returned timestamps from distinct points of the list
\* such that no point left out is cheaper than a point taken
CheapestChoices(price_list, result) ==
    {f \in [1..Len(result) -> 1..Len(price_list)] :
        /\ \A i, j \in 1..Len(result) : f[i] = f[j] => i = j
        /\ \A i \in 1..Len(result) : price_list[f[i]].timestamp = result[i]
        /\ \A i \in 1..Len(result) :
              \A k \in 1..Len(price_list) :
                 (\A j \in 1..Len(result) : f[j] # k) =>
                     price_list[f[i]].price <= price_list[k].price}

\* C27 as stated: the number of timestamps is min(ceil(duration_minutes/60),
\* |prices|), whatever the duration is.
CheapestCountIsMinOfCeil ==
    (call.fn = "find_cheapest_hours" /\ call.result # None) =>
        /\ Len(call.result[1]) = Min(CeilHours(call.duration_minutes), Len(call.prices))
        /\ CheapestChoices(call.prices, call.result[1]) # {}
        /\ (call.prices = << >> \/ call.duration_minutes = 0) => call.result[1] = << >>

\* C27: find_cheapest_hours returns min(ceil(duration_minutes/60), |prices|)
\* timestamps for a duration that is not negative and none for a negative
\* one, each taken from a distinct point of the list, and no point left out
\* is cheaper than a point taken; the result is empty for an empty list or a
\* zero duration.
CheapestHoursAreReturned ==
    (call.fn = "find_cheapest_hours" /\ call.result # None) =>
        /\ Len(call.result[1]) =
              IF call.duration_minutes < 0 THEN 0
              ELSE Min(CeilHours(call.duration_minutes), Len(call.prices))
        /\ CheapestChoices(call.prices, call.result[1]) # {}
        /\ (call.prices = << >> \/ call.duration_minutes = 0) => call.result[1] = << >>

\* 61 minutes over three points whose cheapest are the last two: two
\* timestamps are returned and the dearest point is left out
WitnessTwoCheapestOfThree ==
    /\ call.fn = "find_cheapest_hours"
    /\ call.result # None
    /\ call.duration_minutes = 61
    /\ Len(call.prices) = MaxPoints
    /\ call.prices[1].price > call.prices[2].price
    /\ call.prices[1].price > call.prices[3].price
    /\ Len(call.result[1]) = 2

-----------------------------------------------------------------------------
(* integrations/meross_mqtt.rs: calculate_sign *)

Digits == <<"0", "1", "2", "3", "4", "5", "6", "7", "8", "9">>

RECURSIVE Decimal(_)
\* format!("{}", timestamp) of an i64: a text is a sequence of characters
Decimal(n) ==
    IF n < 0 THEN <<"-">> \o Decimal(-n)
    ELSE IF n < 10 THEN <<Digits[n + 1]>>
    ELSE Decimal(n \div 10) \o <<Digits[(n % 10) + 1]>>

\* md5::compute and format!("{:x}", digest): the digest is not computed, it
\* is the value that stands for the digest of these bytes
Md5Hex(bytes) == [md5 |-> bytes]

\* a calculate_sign that signs the time of the call
calculate_sign_of_now(message_id, key, timestamp) ==
    Md5Hex(message_id \o key \o Decimal(clock))

\* format!("{}{}{}", message_id, key, timestamp), md5, hex
calculate_sign(message_id, key, timestamp) ==
    Md5Hex(message_id \o key \o Decimal(timestamp))

\* the calls of calculate_sign one run makes at most
MaxSigns == 2

MessageIdTexts == {<<"a">>, <<"a", "b">>}

KeyTexts == {<<"k">>, <<"b", "k">>}

SignTimestamps == {-1, 9, 10}

\* calculate_sign is called
CalculateSign ==
    /\ call.fn = "calculate_sign"
    /\ Len(call.calls) < MaxSigns
    /\ \E message_id \in MessageIdTexts, key \in KeyTexts, timestamp \in SignTimestamps :
          call' = [call EXCEPT !.calls =
                      Append(@, [message_id |-> message_id, key |-> key,
                                 timestamp |-> timestamp, now |-> clock,
                                 sign |-> calculate_sign(message_id, key, timestamp)])]
    /\ UNCHANGED <<cronVars, new_execution, engine, daily, mqttVars>>

\* time passes between the calls
SignClockAdvances ==
    /\ call.fn = "calculate_sign"
    /\ clock < MaxSigns
    /\ clock' = clock + 1
    /\ UNCHANGED <<rows, prices, rules, tasks, phase, retryFired, hourlyFired, last,
                   new_execution, engineVars, mqttVars>>

InitSign ==
    /\ CronAtRest
    /\ ProtocolAtRest
    /\ new_execution = None
    /\ engine = NoRun
    /\ daily = NoDaily
    /\ call = [fn |-> "calculate_sign", calls |-> << >>]

NextSign ==
    \/ CalculateSign
    \/ SignClockAdvances

SpecSign == InitSign /\ [][NextSign]_vars

-----------------------------------------------------------------------------
(* The hour of a device command *)

\* C29: a device command for a row is started only while the current hour
\* is the scheduled hour of the row, in the hourly sweep and in the retry
\* sweep.
CommandOnlyInScheduledHour ==
    last.op = "execute_scheduled_execution" => last.key[2] = CurrentHourStart(clock)

-----------------------------------------------------------------------------
(* Specification of the sweeps that keep running: the cron process of Spec  *)
(* is not stopped.  Time advances, tokio-cron-scheduler fires the jobs of   *)
(* every minute, tokio runs every spawned job, and every provider call      *)
(* returns, at the latest by its timeout: hence the weak fairness of the    *)
(* clock, of the jobs and of the steps of every sweep.                      *)

\* the minutes after the last one the clock shows: the jobs of the minute can
\* fire again, the clock stays, so that MaxClock stands for every later time
TickAtEnd ==
    /\ clock = MaxClock
    /\ phase \in {"running", "startup_sweep"}
    /\ \A t \in TaskIds : tasks[t].kind = "idle" \/ Awaiting(tasks[t])
    /\ phase = "running" /\ FreeSlots # {} => retryFired
    /\ retryFired' = FALSE
    /\ hourlyFired' = FALSE
    /\ last' = [NoLast EXCEPT !.op = "tick", !.now = clock]
    /\ new_execution' = None
    /\ UNCHANGED <<clock, rows, prices, rules, tasks, phase, engineVars, mqttVars>>

\* the steps of the sweep in slot t
SweepStep(t) ==
    \/ RetrySelect(t)
    \/ RetryMarkMissed(t)
    \/ ExecuteScheduledExecution(t)
    \/ ExecutionSucceeds(t)
    \/ ExecutionFails(t)
    \/ WriteRetry(t)
    \/ InferTurnOff(t)
    \/ SkipTurnOff(t)
    \/ TurnOffReturns(t)

\* the steps of main and of the scheduler
JobStep ==
    \/ StartupCompute
    \/ StartupMarkMissed
    \/ StartupRun
    \/ HourlyJob
    \/ RetryJob

NextSweeps ==
    \/ StartupCompute
    \/ StartupMarkMissed
    \/ StartupRun
    \/ HourlyJob
    \/ RetryJob
    \/ \E t \in TaskIds : RetrySelect(t)
    \/ \E t \in TaskIds : RetryMarkMissed(t)
    \/ \E t \in TaskIds : ExecuteScheduledExecution(t)
    \/ \E t \in TaskIds : ExecutionSucceeds(t)
    \/ \E t \in TaskIds : ExecutionFails(t)
    \/ \E t \in TaskIds : WriteRetry(t)
    \/ \E t \in TaskIds : InferTurnOff(t)
    \/ \E t \in TaskIds : SkipTurnOff(t)
    \/ \E t \in TaskIds : TurnOffReturns(t)
    \/ Tick
    \/ TickAtEnd

SpecSweeps ==
    /\ Init
    /\ [][NextSweeps]_vars
    /\ WF_vars(Tick \/ TickAtEnd)
    /\ WF_vars(JobStep)
    /\ \A t \in TaskIds : WF_vars(SweepStep(t))

\* the keys a row of the two rules can have
RowKeys == RuleIds \X (12..14)

\* the row is in a terminal state
IsTerminal(key) == rows[key].status \in {Executed, Failed, Missed}

\* what the row waits for lies after the last minute of the clock: a Pending
\* row of the last hour, a Retrying row that is due later
WaitsForLaterTime(key) ==
    \/ rows[key].status = Pending /\ key[2] >= CurrentHourStart(MaxClock)
    \/ /\ rows[key].status = Retrying
       /\ rows[key].next_retry_at # None
       /\ rows[key].next_retry_at[1] > MaxClock

-----------------------------------------------------------------------------
(* Attempts in flight *)

\* the slots whose sweep waits for the device command of the row
AttemptsInFlight(key) ==
    {t \in TaskIds : tasks[t].pc = "await" /\ Head(tasks[t].queue) = key}

\* C31: at most one execution attempt for a row is in flight at any time,
\* also when an attempt outlasts the minute and the next sweep starts while
\* it is still running.
OneAttemptInFlight ==
    \A key \in DOMAIN rows : Cardinality(AttemptsInFlight(key)) <= 1

-----------------------------------------------------------------------------
(* automation_engine.rs: execute_current_hour with every provider call      *)
(* succeeding, as one step: the commands it sends and the devices after it  *)

\* the command of a scheduled row: execute_scheduled_execution
ScheduledCommand(key) ==
    [rule |-> key[1], device |-> rules[key[1]].device_id,
     action |-> ActionFromStr(rows[key].expected_action), inferred |-> FALSE]

\* the command of the inferred turn-off of a rule
TurnOffCommand(rule_id) ==
    [rule |-> rule_id, device |-> rules[rule_id].device_id, action |-> TurnOff,
     inferred |-> TRUE]

\* the commands of execute_current_hour in the order they go out: the
\* pending rows of the hour, then the rules to turn off that have a schedule
\* today
HourCommands(now, queue) ==
    LET scheduled_rule_ids == {queue[i][1] : i \in 1..Len(queue)}
        off == SelectSeq(AscendingSeq(rules_to_turn_off(scheduled_rule_ids)),
                         LAMBDA id : has_schedule_today(id, now))
    IN  [i \in 1..Len(queue) |-> ScheduledCommand(queue[i])]
        \o [i \in 1..Len(off) |-> TurnOffCommand(off[i])]

DeviceIds == {1, 2}

RECURSIVE DevicesAfter(_, _)
\* the devices after the commands, each of which succeeds; Toggle inverts
DevicesAfter(devices, commands) ==
    IF commands = << >> THEN devices
    ELSE LET c == Head(commands)
             on == CASE c.action = TurnOn -> TRUE
                     [] c.action = TurnOff -> FALSE
                     [] OTHER -> ~devices[c.device]
         IN  DevicesAfter([devices EXCEPT ![c.device] = on], Tail(commands))

\* execute_current_hour from its queries to its return
ExecuteCurrentHour ==
    /\ call.fn = "execute_current_hour"
    /\ call.result = None
    /\ \E queue \in Orders(pending_executions(clock)) :
          LET commands == HourCommands(clock, queue)
          IN  /\ call' = [call EXCEPT
                            !.result = Some([commands |-> commands,
                                             devices |-> DevicesAfter(call.devices,
                                                                      commands)])]
              /\ rows' = [key \in DOMAIN rows |->
                            IF \E i \in 1..Len(queue) : queue[i] = key
                            THEN ExecutedUpdate(rows[key], clock)
                            ELSE rows[key]]
    /\ last' = [NoLast EXCEPT !.op = "execute_current_hour", !.now = clock,
                              !.new = pending_executions(clock)]
    /\ new_execution' = None
    /\ UNCHANGED <<clock, prices, rules, tasks, phase, retryFired, hourlyFired,
                   engine, daily, mqttVars>>

-----------------------------------------------------------------------------
(* Specification of one run of execute_current_hour at 13:00: rule 1 is     *)
(* scheduled from 13:00 to 13:59, rule 2 has a drawn hour range, action,    *)
(* device and enabled flag; the schedule of the day is computed.            *)

HourRules ==
    {Rule("time_schedule", a,
          [NoConfig EXCEPT !.time_range_start = Some(s), !.time_range_end = Some(e)],
          en, d) :
        a \in {TurnOn, TurnOff}, s \in 12..14, e \in 12..14, en \in BOOLEAN,
        d \in DeviceIds}

ScheduledAtThirteen ==
    Rule("time_schedule", TurnOn,
         [NoConfig EXCEPT !.time_range_start = Some(13), !.time_range_end = Some(13)],
         TRUE, 1)

InitHour ==
    /\ clock = 13 * MinutesPerHour
    /\ prices = << >>
    /\ rules \in {(1 :> ScheduledAtThirteen) @@ (2 :> r) : r \in HourRules}
    /\ rows = compute_schedule_for_date(<< >>, 0).rows
    /\ tasks = [t \in TaskIds |-> Idle]
    /\ phase = "running"
    /\ retryFired = FALSE
    /\ hourlyFired = FALSE
    /\ last = NoLast
    /\ ProtocolAtRest
    /\ new_execution = None
    /\ engine = NoRun
    /\ daily = NoDaily
    /\ call \in {[fn |-> "execute_current_hour", devices |-> d, result |-> None] :
                    d \in [DeviceIds -> BOOLEAN]}

NextHour == ExecuteCurrentHour

SpecHour == InitHour /\ [][NextHour]_vars

\* C32: after execute_current_hour with every provider call succeeding, the
\* device of every TurnOn row executed for the hour is on.
TurnedOnDeviceStaysOn ==
    (call.fn = "execute_current_hour" /\ call.result # None) =>
        \A i \in 1..Len(call.result[1].commands) :
            LET c == call.result[1].commands[i]
            IN  (~c.inferred /\ c.action = TurnOn) => call.result[1].devices[c.device]

-----------------------------------------------------------------------------
(* Properties of the table of pending requests *)

\* caller r returns from a call of request in this step
Returns(r) ==
    /\ requests'[r].pc = "returned"
    /\ requests[r].pc # "returned" \/ requests'[r].n # requests[r].n

\* the entries of the table that are not of the call tx, in their order
EntriesOfOthers(pending, tx) == SelectSeq(pending, LAMBDA e : e.tx # tx)

\* the entries of the table are registrations of calls in progress
TableHoldsCallsInProgress ==
    \A i \in 1..Len(pending_requests) :
        LET tx == pending_requests[i].tx
        IN  tx = Sender(tx[1]) /\ requests[tx[1]].pc \in {"publish", "wait"}

\* C33: when a call of request returns, with whatever outcome, the table holds
\* no entry of that call and the entries of the other calls are as they were;
\* every entry of the table is the registration of a call in progress.
ReturnReleasesOwnEntryOnly ==
    /\ []TableHoldsCallsInProgress
    /\ [][\A r \in RequestIds :
            Returns(r) =>
                LET tx == <<r, requests'[r].n>>
                IN  /\ \A i \in 1..Len(pending_requests') : pending_requests'[i].tx # tx
                    /\ EntriesOfOthers(pending_requests', tx)
                          = EntriesOfOthers(pending_requests, tx)]_vars

\* C34: an inbound message goes to at most one pending request, the one that
\* registered first among those whose filter is a substring of the topic or
\* is "*"; that entry is removed and every other entry stays; a message that
\* matches no entry leaves the table as it is; a request never returns a
\* message whose topic does not match its filter.
MessageGoesToEarliestMatch ==
    /\ [](\A r \in RequestIds :
            (requests[r].inbox # None) =>
                Matches(requests[r].inbox[1].topic, requests[r].topic_filter))
    /\ [](\A r \in RequestIds :
            (requests[r].pc = "returned" /\ requests[r].result[1].ok) =>
                Matches(requests[r].result[1].value.topic, requests[r].topic_filter))
    /\ [][last'.op = "deliver" =>
            LET S == {i \in 1..Len(pending_requests) :
                         Matches(last'.topic, pending_requests[i].topic_filter)}
                got == {r \in RequestIds : requests'[r] # requests[r]}
            IN  IF S = {}
                THEN /\ pending_requests' = pending_requests
                     /\ requests' = requests
                     /\ last'.to = None
                ELSE \E i \in S :
                        /\ \A j \in S : i <= j
                        /\ pending_requests' = RemoveAt(pending_requests, i)
                        /\ last'.to = Some(pending_requests[i].tx)
                        /\ got \subseteq {pending_requests[i].tx[1]}
                        /\ \A r \in got :
                              requests'[r] =
                                  [requests[r] EXCEPT
                                      !.inbox = Some([topic |-> last'.topic,
                                                      payload |-> last'.payload])]]_vars

\* a message was delivered to the first of two pending requests that match
\* its topic; the second is still in the table
WitnessFirstOfTwoMatches ==
    /\ last.op = "deliver"
    /\ last.to # None
    /\ requests[last.to[1][1]].inbox # None
    /\ Len(pending_requests) = 1
    /\ Matches(last.topic, pending_requests[1].topic_filter)
    /\ pending_requests[1].tx[2] = requests[pending_requests[1].tx[1]].n

\* C35: after a transport error of the event loop the connected flag is false
\* and stays false, the table is emptied by the error, every request that
\* waited returns Disconnected, neither Timeout nor a message, and every
\* request made later returns Disconnected at once.
TransportErrorDisconnectsAll ==
    /\ [](connection.loop = "ended" => ~connection.connected)
    /\ [][last'.op = "loop_error" => pending_requests' = << >>]_vars
    /\ [][\A r \in RequestIds :
            (/\ connection.loop = "ended"
             /\ requests[r].pc = "wait"
             /\ requests[r].inbox = None
             /\ Returns(r)) =>
                requests'[r].result = Some(Err("Disconnected"))]_vars
    /\ [][\A r \in RequestIds :
            (connection.loop = "ended" /\ requests'[r].n # requests[r].n) =>
                /\ requests'[r].pc = "returned"
                /\ requests'[r].result = Some(Err("Disconnected"))]_vars

\* a request that waited when the event loop got the error has returned
\* Disconnected, and a request made after the error returned Disconnected
\* without registering
WitnessWaitingAndLaterDisconnected ==
    /\ connection.state = "established"
    /\ connection.loop = "ended"
    /\ last.op = "sender_dropped"
    /\ requests[last.request].published
    /\ requests[last.request].result = Some(Err("Disconnected"))
    /\ \E r \in RequestIds \ {last.request} :
          /\ requests[r].pc = "returned"
          /\ ~requests[r].published
          /\ requests[r].result = Some(Err("Disconnected"))

-----------------------------------------------------------------------------
(* Specification of the computations of a window over midnight: at 20:30 of *)
(* date 0 the prices of 22:00 and 23:00 are stored, the prices of the first *)
(* hours of date 1 arrive later; rule 1 takes its cheapest hours between    *)
(* 22:00 and 01:59, rule 2 between 22:00 and 23:59.                         *)

WindowRules ==
    {(1 :> Rule("cheapest_hours", TurnOn,
                [NoConfig EXCEPT !.cheapest_hours = Some(n),
                                 !.time_range_start = Some(22),
                                 !.time_range_end = Some(1)],
                TRUE, 1))
     @@ (2 :> Rule("cheapest_hours", TurnOn,
                   [NoConfig EXCEPT !.cheapest_hours = Some(1),
                                    !.time_range_start = Some(22),
                                    !.time_range_end = Some(23)],
                   TRUE, 2)) : n \in 1..MaxHoursNeeded}

\* the prices of 00:00 and 01:00 of date 1
NextDayPriceTables == [{HoursPerDay, HoursPerDay + 1} -> 1..MaxPrice]

\* sync_tomorrow: the prices of the next date are stored
PricesArrive ==
    /\ HoursPerDay \notin DOMAIN prices
    /\ \E fetched \in NextDayPriceTables : prices' = store_prices(prices, fetched)
    /\ last' = [NoLast EXCEPT !.op = "store_prices"]
    /\ new_execution' = None
    /\ UNCHANGED <<clock, rows, rules, tasks, phase, retryFired, hourlyFired,
                   engineVars, mqttVars>>

InitWindow ==
    /\ clock = DailyStartClock
    /\ rows = << >>
    /\ prices \in TodayPriceTables
    /\ rules \in WindowRules
    /\ tasks = [t \in TaskIds |-> Idle]
    /\ phase = "calc"
    /\ retryFired = FALSE
    /\ hourlyFired = FALSE
    /\ last = NoLast
    /\ EngineAtRest
    /\ ProtocolAtRest

NextWindow ==
    \/ \E date \in Dates : ComputeScheduleForDate(date)
    \/ \E rule_id \in RuleIds, date \in Dates : ComputeScheduleForRule(rule_id, date)
    \/ RecomputeOvernightRules
    \/ PricesArrive

SpecWindow == InitWindow /\ [][NextWindow]_vars

\* the hours of the occurrence of the window of a rule that starts on a date
WindowOccurrence(rule, date) ==
    LET start_hour == ParseHour(rule.config.time_range_start)[1]
        end_hour == ParseHour(rule.config.time_range_end)[1]
    IN  IF start_hour > end_hour
        THEN (date * HoursPerDay + start_hour)..((date + 1) * HoursPerDay + end_hour)
        ELSE (date * HoursPerDay + start_hour)..(date * HoursPerDay + end_hour)

\* C36: after any sequence of compute_schedule_for_date,
\* compute_schedule_for_rule and recompute_overnight_rules, with the prices of
\* the next date arriving in between, a cheapest_hours rule with N hours has
\* at most N rows, of any status, inside one occurrence of its window.
AtMostNRowsPerWindow ==
    \A id \in DOMAIN rules, date \in Dates :
        Cardinality({key \in RowsOfRule(rows, id) :
                        key[2] \in WindowOccurrence(rules[id], date)})
            <= UnwrapOr(rules[id].config.cheapest_hours, DefaultHoursNeeded)

-----------------------------------------------------------------------------
(* schedule_computation.rs: delete_schedule_for_rule and                    *)
(* recompute_schedule_for_rule                                              *)

\* a delete that takes the rows of the rule whatever their status
delete_rows_of_rule(rws, rule_id) ==
    LET deleted == RowsOfRule(rws, rule_id)
    IN  [rows |-> [key \in DOMAIN rws \ deleted |-> rws[key]],
         count |-> Cardinality(deleted)]

\* delete_schedule_for_rule: the Pending rows of the rule are deleted
delete_schedule_for_rule(rws, rule_id) ==
    LET deleted == {key \in RowsOfRule(rws, rule_id) : rws[key].status = Pending}
    IN  [rows |-> [key \in DOMAIN rws \ deleted |-> rws[key]],
         count |-> Cardinality(deleted)]

\* recompute_schedule_for_rule: delete_schedule_for_rule, then
\* compute_schedule_for_rule for today and for tomorrow
recompute_schedule_for_rule(rws, rule_id, today) ==
    LET d == delete_schedule_for_rule(rws, rule_id)
        count_today == compute_schedule_for_rule_internal(d.rows, rule_id, today)
        count_tomorrow ==
            compute_schedule_for_rule_internal(count_today.rows, rule_id, today + 1)
    IN  [rows |-> count_tomorrow.rows, count |-> count_today.count + count_tomorrow.count]

\* delete_schedule_for_rule(rule_id)
DeleteScheduleForRule(rule_id) ==
    /\ LET r == delete_schedule_for_rule(rows, rule_id)
       IN  /\ rows' = r.rows
           /\ last' = [NoLast EXCEPT !.op = "delete_schedule_for_rule",
                                     !.rule = rule_id, !.count = r.count, !.ok = TRUE]
    /\ new_execution' = None
    /\ UNCHANGED <<clock, prices, rules, tasks, phase, retryFired, hourlyFired,
                   engineVars, mqttVars>>

\* recompute_schedule_for_rule(rule_id)
RecomputeScheduleForRule(rule_id) ==
    /\ LET r == recompute_schedule_for_rule(rows, rule_id, TodayOf(clock))
       IN  /\ rows' = r.rows
           /\ last' = [NoLast EXCEPT !.op = "recompute_schedule_for_rule",
                                     !.rule = rule_id, !.date = TodayOf(clock),
                                     !.count = r.count, !.ok = TRUE,
                                     !.new = DOMAIN r.rows \ DOMAIN rows]
    /\ new_execution' = None
    /\ UNCHANGED <<clock, prices, rules, tasks, phase, retryFired, hourlyFired,
                   engineVars, mqttVars>>

-----------------------------------------------------------------------------
(* Specification of the deletions: at 23:30 of date 0, with the prices of   *)
(* the evening and of the first hours of date 1 stored, the table holds     *)
(* rows of both rules in drawn statuses; the rows of hours to come are      *)
(* Pending.                                                                 *)

FrameClock == 23 * MinutesPerHour + 30

\* a row of the given hour as the engine leaves it in the given status
RowInStatus(status, hour) ==
    LET row == NewScheduledExecution(TurnOn)
        at == hour * MinutesPerHour
    IN  CASE status = Pending -> row
          [] status = Executed -> ExecutedUpdate(row, at)
          [] status = Retrying -> RetryUpdate(row, 0, at)
          [] status = Failed -> RetryUpdate(row, MaxRetryCount - 1, at)
          [] status = Missed -> MissedUpdate(row, at + MinutesPerHour)

\* the rows the table can hold: a row of 12:00 of rule 1, rows of rule 1 at
\* 22:00, 23:00 and 00:00, a row of rule 2 at 22:00
FrameKeys == {<<1, 12>>, <<1, 22>>, <<1, 23>>, <<1, 24>>, <<2, 22>>}

StatusesAt(key) ==
    IF key[2] > CurrentHourStart(FrameClock) THEN {Pending}
    ELSE IF key[2] = 12 THEN {Pending, Missed}
    ELSE IF key = <<1, 22>> THEN ExecutionStatus
    ELSE {Pending, Executed}

FrameTables ==
    UNION {{[key \in S |-> RowInStatus(st[key], key[2])] :
                st \in {f \in [S -> ExecutionStatus] : \A key \in S : f[key] \in StatusesAt(key)}} :
           S \in SUBSET FrameKeys}

InitFrame ==
    /\ clock = FrameClock
    /\ rows \in FrameTables
    /\ prices \in {(22 :> 2) @@ (23 :> p) @@ (24 :> 1) @@ (25 :> 2) : p \in 1..MaxPrice}
    /\ rules \in WindowRules
    /\ tasks = [t \in TaskIds |-> Idle]
    /\ phase = "calc"
    /\ retryFired = FALSE
    /\ hourlyFired = FALSE
    /\ last = NoLast
    /\ EngineAtRest
    /\ ProtocolAtRest

NextFrame ==
    \/ \E rule_id \in RuleIds : DeleteScheduleForRule(rule_id)
    \/ \E rule_id \in RuleIds : RecomputeScheduleForRule(rule_id)
    \/ RecomputeOvernightRules

SpecFrame == InitFrame /\ [][NextFrame]_vars

\* the row is of a rule with a window over midnight and lies between the
\* start of the window on the date and its end on the next date
InOvernightWindow(key, date) ==
    /\ rule_has_overnight_window(rules[key[1]])
    /\ key[2] \in WindowOccurrence(rules[key[1]], date)

\* C37: delete_schedule_for_rule, recompute_schedule_for_rule and
\* recompute_overnight_rules remove Pending rows only and change no row that
\* stays; the first two touch the rows of their rule only;
\* recompute_overnight_rules touches only rows of rules whose window crosses
\* midnight, between the window start on the current date and the window end
\* on the next date.
RecomputeTouchesPendingOnly ==
    [][last'.op \in {"delete_schedule_for_rule", "recompute_schedule_for_rule",
                     "recompute_overnight_rules"} =>
         LET touched == (DOMAIN rows \ DOMAIN rows') \cup (DOMAIN rows' \ DOMAIN rows)
         IN  /\ \A key \in DOMAIN rows \cap DOMAIN rows' : rows'[key] = rows[key]
             /\ \A key \in DOMAIN rows \ DOMAIN rows' : rows[key].status = Pending
             /\ last'.op # "recompute_overnight_rules" =>
                   \A key \in touched : key[1] = last'.rule
             /\ last'.op = "recompute_overnight_rules" =>
                   \A key \in touched : InOvernightWindow(key, TodayOf(clock))]_vars

\* delete_schedule_for_rule has deleted rows of its rule; an Executed row of
\* that rule and a Pending row of the other rule are in the table
WitnessPendingDeletedOthersKept ==
    /\ last.op = "delete_schedule_for_rule"
    /\ last.count > 0
    /\ \E key \in RowsOfRule(rows, last.rule) : rows[key].status = Executed
    /\ \E key \in DOMAIN rows : key[1] # last.rule /\ rows[key].status = Pending

-----------------------------------------------------------------------------
(* Properties of the delay of a retry *)

\* the delay update_scheduled_status has left in a Retrying row: from the
\* failure, last_retry_at, to next_retry_at
RetryDelay(row) == row.next_retry_at[1] - row.last_retry_at[1]

\* C38: the delay between a failed attempt and the retry that follows it grows
\* with the retry count: after one more failure of a Retrying row,
\* next_retry_at lies further from the time of the failure than after the
\* failure before.
RetryDelayGrows ==
    [][\A key \in DOMAIN rows \cap DOMAIN rows' :
          (/\ rows[key].status = Retrying
           /\ rows'[key].status = Retrying
           /\ rows'[key].retry_count > rows[key].retry_count) =>
              RetryDelay(rows'[key]) > RetryDelay(rows[key])]_vars

-----------------------------------------------------------------------------
(* Specification of the evaluation of a cheapest_hours rule whose window    *)
(* crosses midnight, 23:00 to 02:00: the time is drawn before and after     *)
(* midnight, the prices of the night are drawn, the prices of the next      *)
(* night are stored or not.                                                 *)

\* 23:10 of date 0, 00:10 and 01:10 of date 1
MidnightClocks == {23 * MinutesPerHour + 10, MinutesPerDay + 10,
                   MinutesPerDay + MinutesPerHour + 10}

\* the hours 23:00 of date 0, 00:00 and 01:00 of date 1
NightHours == {23, 24, 25}

\* the prices of 23:00 of date 1 and 00:00 of date 2, when they are stored
NextNightPrices == {<< >>, (47 :> 2) @@ (48 :> 1)}

MidnightRules ==
    {Rule("cheapest_hours", TurnOn,
          [NoConfig EXCEPT !.hours_needed = Some(n),
                           !.window_start = Some(23 * MinutesPerHour),
                           !.window_end = Some(2 * MinutesPerHour)],
          TRUE, 1) : n \in 1..MaxHoursNeeded}

InitMidnight ==
    /\ clock \in MidnightClocks
    /\ rows = << >>
    /\ prices \in {night @@ next : night \in [NightHours -> 1..MaxPrice],
                                   next \in NextNightPrices}
    /\ rules \in {(1 :> r) : r \in MidnightRules}
    /\ tasks = [t \in TaskIds |-> Idle]
    /\ phase = "none"
    /\ retryFired = FALSE
    /\ hourlyFired = FALSE
    /\ last = NoLast
    /\ ProtocolAtRest
    /\ new_execution = None
    /\ engine = NoRun
    /\ daily = NoDaily
    /\ call = [fn |-> "evaluate_rule", rule_id |-> 1, now |-> 0, current_price |-> None,
               evaluation |-> None]

NextMidnight == EvaluateRule

SpecMidnight == InitMidnight /\ [][NextMidnight]_vars

\* the hours with a stored price in the occurrence of the window that
\* contains now: it starts on the date before when now is before window_end
OccurrenceOfNow(config, now) ==
    LET window_start == config.window_start[1]
        window_end == config.window_end[1]
        start_date == IF window_start > window_end /\ TimeOf(now) < window_end
                      THEN TodayOf(now) - 1
                      ELSE TodayOf(now)
        start_dt == start_date * MinutesPerDay + window_start
        end_dt == IF window_start > window_end
                  THEN (start_date + 1) * MinutesPerDay + window_end
                  ELSE start_date * MinutesPerDay + window_end
    IN  {t \in DOMAIN prices :
            t * MinutesPerHour >= start_dt /\ t * MinutesPerHour < end_dt}

\* C39: the reactive evaluation of a cheapest_hours rule whose window crosses
\* midnight ranks the current hour among the hours of the occurrence of the
\* window that contains now: it does not trigger when N hours of the
\* occurrence are cheaper than the current hour, and it triggers when fewer
\* than N other hours of it are as cheap as the current hour.
CurrentHourRankedInItsWindow ==
    (call.fn = "evaluate_rule" /\ call.evaluation # None) =>
        LET config == rules[call.rule_id].config
            hour == CurrentHourStart(call.now)
            candidates == OccurrenceOfNow(config, call.now)
            cheaper == {t \in candidates : prices[t] < prices[hour]}
            as_cheap == {t \in candidates \ {hour} : prices[t] <= prices[hour]}
        IN  (rules[call.rule_id].rule_type = "cheapest_hours" /\ hour \in candidates) =>
                /\ Cardinality(cheaper) >= config.hours_needed[1] =>
                      ~call.evaluation[1].should_trigger
                /\ Cardinality(as_cheap) < config.hours_needed[1] =>
                      call.evaluation[1].should_trigger

====
